---- MODULE Spec2Model ----
(***************************************************************************)
(* Verification model of the diet-app analytics core: the SQLite record    *)
(* store (core/storage.py), the pydantic schemas (core/schemas.py), the    *)
(* metrics engine (core/metrics.py), the KPI and red-flag entry points     *)
(* (core/kpi_engine.py, core/red_flags.py) and the forecast engine         *)
(* (core/forecast.py).                                                     *)
(*                                                                         *)
(* Units.  weight_kg is held in tenths of a kilogram and bodyfat_pct in    *)
(* tenths of a percent (both schemas round to one decimal), calories in    *)
(* whole kcal, dates as day numbers.  A mean is held as the exact fraction *)
(* [num, den].                                                             *)
(***************************************************************************)
EXTENDS Integers, Sequences, FiniteSets, TLC

VARIABLES table, seq, result, allOk

vars == <<table, seq, result, allOk>>

(***************************************************************************)
(* Bounds of the model                                                     *)
(***************************************************************************)
\* number of rows the store ever inserts in the CRUD specification
MaxId == 2
\* length in days of the generated time series
SeriesLen == 9
\* largest forecast horizon requested
MaxHorizon == 2

(***************************************************************************)
(* Environment and program constants                                       *)
(***************************************************************************)
\* date.today(), as a day number
Today == SeriesLen
\* Python None / SQL NULL / pandas NaN in a numeric column
NULL == -1000000
\* Python None in the notes column
NoNotes == "None"
\* MetricsEngine.__init__(bmr_kcal=2000.0)
BMR == 2000

\* calendar dates the CRUD specification writes to: two days ago and today
CrudDates == {Today - 2, Today}

\* the fields of DailyEntryUpdate
Fields == {"weight_kg", "bodyfat_pct", "cal_in_kcal", "cal_out_sport_kcal", "notes"}

(***************************************************************************)
(* core/schemas.py                                                         *)
(***************************************************************************)
\* DailyEntryCreate: Field(ge=30, le=200) on weight, Field(ge=0, le=100) on
\* body fat, Field(ge=0) on both calorie fields
DailyEntryCreateValid(e) ==
    /\ e.weight_kg >= 300 /\ e.weight_kg <= 2000
    /\ (e.bodyfat_pct = NULL \/ (e.bodyfat_pct >= 0 /\ e.bodyfat_pct <= 1000))
    /\ (e.cal_in_kcal = NULL \/ e.cal_in_kcal >= 0)
    /\ (e.cal_out_sport_kcal = NULL \/ e.cal_out_sport_kcal >= 0)

\* DailyEntryUpdate: the same Field bounds, every field Optional
DailyEntryUpdateValid(u) ==
    /\ (u.weight_kg = NULL \/ (u.weight_kg >= 300 /\ u.weight_kg <= 2000))
    /\ (u.bodyfat_pct = NULL \/ (u.bodyfat_pct >= 0 /\ u.bodyfat_pct <= 1000))
    /\ (u.cal_in_kcal = NULL \/ u.cal_in_kcal >= 0)
    /\ (u.cal_out_sport_kcal = NULL \/ u.cal_out_sport_kcal >= 0)

\* DailyEntry: Field bounds plus validate_bodyfat (3..60) and validate_weight
DailyEntryValid(r) ==
    /\ r.weight_kg >= 300 /\ r.weight_kg <= 2000
    /\ (r.bodyfat_pct = NULL \/ (r.bodyfat_pct >= 30 /\ r.bodyfat_pct <= 600))
    /\ (r.cal_in_kcal = NULL \/ r.cal_in_kcal >= 0)
    /\ (r.cal_out_sport_kcal = NULL \/ r.cal_out_sport_kcal >= 0)

\* DailyEntryCreate objects the callers pass in
CreateInputs ==
    { [weight_kg |-> 855, bodyfat_pct |-> 185, cal_in_kcal |-> 2200,
       cal_out_sport_kcal |-> 450, notes |-> "fasted", source |-> "manual"],
      [weight_kg |-> 800, bodyfat_pct |-> NULL, cal_in_kcal |-> NULL,
       cal_out_sport_kcal |-> 500, notes |-> NoNotes, source |-> "manual"],
      [weight_kg |-> 800, bodyfat_pct |-> 20, cal_in_kcal |-> 1800,
       cal_out_sport_kcal |-> NULL, notes |-> NoNotes, source |-> "import"] }

\* DailyEntryUpdate objects the callers pass in; fields is model_fields_set
UpdateInputs ==
    { [fields |-> {"weight_kg", "cal_out_sport_kcal"}, weight_kg |-> 840,
       bodyfat_pct |-> NULL, cal_in_kcal |-> NULL, cal_out_sport_kcal |-> NULL,
       notes |-> NoNotes],
      [fields |-> {"bodyfat_pct"}, weight_kg |-> NULL,
       bodyfat_pct |-> 20, cal_in_kcal |-> NULL, cal_out_sport_kcal |-> NULL,
       notes |-> NoNotes],
      [fields |-> {"weight_kg"}, weight_kg |-> NULL,
       bodyfat_pct |-> NULL, cal_in_kcal |-> NULL, cal_out_sport_kcal |-> NULL,
       notes |-> NoNotes],
      [fields |-> {}, weight_kg |-> NULL,
       bodyfat_pct |-> NULL, cal_in_kcal |-> NULL, cal_out_sport_kcal |-> NULL,
       notes |-> NoNotes] }

(***************************************************************************)
(* core/storage.py                                                         *)
(***************************************************************************)
\* Storage._row_to_entry: DailyEntry(...) validates the row it reads
RowReadable(r) == DailyEntryValid(r)

\* rows of daily_entries selected by the WHERE clause of get_all
SelectRange(t, start_date, end_date) ==
    { r \in t : /\ (start_date = NULL \/ r.date >= start_date)
                /\ (end_date = NULL \/ r.date <= end_date) }

\* ORDER BY date DESC
RECURSIVE OrderByDateDesc(_)
OrderByDateDesc(S) ==
    IF S = {} THEN <<>>
    ELSE LET top == CHOOSE r \in S : \A q \in S : q.date <= r.date
         IN  <<top>> \o OrderByDateDesc(S \ {top})

\* Storage.get_all: [err, val]; reading a row the DailyEntry schema refuses
\* raises pydantic's ValidationError
GetAll(t, start_date, end_date) ==
    LET rows == SelectRange(t, start_date, end_date)
    IN  IF \E r \in rows : ~RowReadable(r)
        THEN [err |-> "ValidationError", val |-> <<>>]
        ELSE [err |-> "None", val |-> OrderByDateDesc(rows)]

\* Storage.get_by_id / Storage.get_by_date on the selected rows
GetOne(rows) ==
    IF rows = {} THEN [err |-> "None", val |-> <<>>]
    ELSE LET r == CHOOSE x \in rows : TRUE
         IN  IF RowReadable(r) THEN [err |-> "None", val |-> <<r>>]
             ELSE [err |-> "ValidationError", val |-> <<>>]

GetById(t, entry_id) == GetOne({ r \in t : r.id = entry_id })

GetByDate(t, entry_date) == GetOne({ r \in t : r.date = entry_date })

\* SELECT MAX(id) in place of COUNT(*)
CountMaxId(t) == IF t = {} THEN 0 ELSE CHOOSE m \in { r.id : r \in t } : \A r \in t : r.id <= m

\* SELECT COUNT(*)
Count(t) == Cardinality(t)

\* the SET list built from model_dump() without exclude_unset: every field of
\* the update is written, the unset ones as NULL
ApplyUpdateAllFields(r, u) ==
    [ id |-> r.id, date |-> r.date, source |-> r.source,
      weight_kg |-> IF "weight_kg" \in u.fields THEN u.weight_kg ELSE r.weight_kg,
      bodyfat_pct |-> u.bodyfat_pct, cal_in_kcal |-> u.cal_in_kcal,
      cal_out_sport_kcal |-> u.cal_out_sport_kcal, notes |-> u.notes ]

\* the UPDATE statement's SET list applied to one row
ApplyUpdate(r, u) ==
    [ id |-> r.id, date |-> r.date, source |-> r.source,
      weight_kg |-> IF "weight_kg" \in u.fields THEN u.weight_kg ELSE r.weight_kg,
      bodyfat_pct |-> IF "bodyfat_pct" \in u.fields THEN u.bodyfat_pct ELSE r.bodyfat_pct,
      cal_in_kcal |-> IF "cal_in_kcal" \in u.fields THEN u.cal_in_kcal ELSE r.cal_in_kcal,
      cal_out_sport_kcal |-> IF "cal_out_sport_kcal" \in u.fields
                             THEN u.cal_out_sport_kcal ELSE r.cal_out_sport_kcal,
      notes |-> IF "notes" \in u.fields THEN u.notes ELSE r.notes ]

(***************************************************************************)
(* core/metrics.py                                                         *)
(***************************************************************************)
Max(a, b) == IF a >= b THEN a ELSE b

Min(a, b) == IF a <= b THEN a ELSE b

Abs(x) == IF x < 0 THEN -x ELSE x

\* Op(a), with the argument a evaluated once (a local variable of the code)
Once(Op(_), a) == CHOOSE out \in { Op(x) : x \in {a} } : TRUE

\* NaN in a rolling-average column; a mean is the fraction num/den, den > 0
NaNAvg == [num |-> 0, den |-> 0]

IsNaN(avg) == avg.den = 0

\* a 7-day average is a sum of weights over 4 to 7 rows, so every weight the
\* regression reads is a whole number of 1/WeightScale tenths of a kilogram
WeightScale == 420

\* a mean num/den as a whole number of 1/WeightScale
Scaled(avg) == avg.num * (WeightScale \div avg.den)

\* the last n rows of a sequence
TailRows(rows, n) == SubSeq(rows, Max(1, Len(rows) - n + 1), Len(rows))

\* df.sort_values('date'): one row inserted into an ascending sequence, after
\* the rows that do not come later (the sort is stable)
InsertByDate(r, s) ==
    SelectSeq(s, LAMBDA x : x.date <= r.date) \o <<r>>
      \o SelectSeq(s, LAMBDA x : x.date > r.date)

\* df.sort_values('date') on the rows in the order get_all returned them
SortValuesByDate(s) ==
    LET Sorted[k \in 0..Len(s)] ==
          IF k = 0 THEN <<>>
          ELSE Once(LAMBDA rest : InsertByDate(s[k], rest), Sorted[k - 1])
    IN  Sorted[Len(s)]

\* _compute_body_composition: weight * (bodyfat / 100), in 1e-4 kg
FatMass(weight, bodyfat) == IF bodyfat = NULL THEN NULL ELSE weight * bodyfat

\* _compute_body_composition: weight - fat mass, in 1e-4 kg
LeanMass(weight, bodyfat) ==
    IF bodyfat = NULL THEN NULL ELSE weight * 1000 - FatMass(weight, bodyfat)

\* _compute_calorie_metrics without the fillna(0): a missing exercise value
\* makes the net balance missing
NetCaloriesNoFill(cal_in, cal_out_sport) ==
    IF cal_in = NULL \/ cal_out_sport = NULL THEN NULL
    ELSE cal_in - BMR - cal_out_sport

\* _compute_calorie_metrics: cal_in - bmr - cal_out_sport.fillna(0), then
\* None wherever cal_in is missing
NetCalories(cal_in, cal_out_sport) ==
    IF cal_in = NULL THEN NULL
    ELSE cal_in - BMR - (IF cal_out_sport = NULL THEN 0 ELSE cal_out_sport)

\* min_periods of half the window
MinPeriodsHalf(window) == Max(1, window \div 2)

\* min_periods = max(1, int(window * 0.7))
MinPeriods(window) == Max(1, (window * 7) \div 10)

\* sum of a sequence of numbers
SumSeq(s) ==
    LET S[k \in 0..Len(s)] == IF k = 0 THEN 0 ELSE S[k - 1] + s[k]
    IN  S[Len(s)]

\* Series.rolling(window, min_periods, center=False).mean() at position i
\* (1-based) of the column col: the mean of the non-null values among the
\* last `window` rows, NaN when there are fewer than min_periods of them
Rolling(col, i, window) ==
    LET lo == Max(1, i - window + 1)
        obs == SelectSeq(SubSeq(col, lo, i), LAMBDA v : v # NULL)
    IN  Once(LAMBDA o : IF Len(o) >= MinPeriods(window)
                        THEN [num |-> SumSeq(o), den |-> Len(o)]
                        ELSE NaNAvg, obs)

\* the columns _compute_calorie_metrics and _compute_rolling_averages add to
\* the sorted rows
DeriveRows(sorted, weights, nets) ==
    [i \in 1..Len(sorted) |->
      [ date |-> sorted[i].date,
        bs_weight_kg |-> sorted[i].weight_kg,
        bs_bodyfat_pct |-> sorted[i].bodyfat_pct,
        cal_in_kcal |-> sorted[i].cal_in_kcal,
        cal_out_sport_kcal |-> sorted[i].cal_out_sport_kcal,
        bs_fat_mass_kg |-> FatMass(sorted[i].weight_kg, sorted[i].bodyfat_pct),
        bs_lean_mass_kg |-> LeanMass(sorted[i].weight_kg, sorted[i].bodyfat_pct),
        cal_net_kcal |-> nets[i],
        bs_weight_7d_avg_kg |-> Rolling(weights, i, 7),
        bs_weight_14d_avg_kg |-> Rolling(weights, i, 14),
        bs_weight_30d_avg_kg |-> Rolling(weights, i, 30),
        cal_net_7d_avg_kcal |-> Rolling(nets, i, 7),
        cal_net_14d_avg_kcal |-> Rolling(nets, i, 14),
        cal_net_30d_avg_kcal |-> Rolling(nets, i, 30) ] ]

\* the derived table built from the entries get_all returned: sort_values,
\* _compute_body_composition, _compute_calorie_metrics, _compute_rolling_averages
DeriveTable(entries) ==
    Once(LAMBDA sorted :
           Once(LAMBDA weights :
                  Once(LAMBDA nets : DeriveRows(sorted, weights, nets),
                       [i \in 1..Len(sorted) |->
                          NetCalories(sorted[i].cal_in_kcal,
                                      sorted[i].cal_out_sport_kcal)]),
                [i \in 1..Len(sorted) |-> sorted[i].weight_kg]),
         SortValuesByDate(entries))

\* the body of get_metrics_dataframe once get_all has returned
MetricsOf(entries) ==
    IF entries.err # "None" THEN [err |-> entries.err, val |-> <<>>]
    ELSE IF entries.val = <<>> THEN [err |-> "None", val |-> <<>>]
    ELSE [err |-> "None", val |-> DeriveTable(entries.val)]

\* get_metrics_dataframe reading through a cursor that the first call of any
\* engine drains: every later call finds no rows
GetMetricsDataframeDrained(t, start_date, end_date, days) ==
    IF result.op # "init" THEN [err |-> "None", val |-> <<>>]
    ELSE LET e == IF days # NULL /\ days # 0 THEN Today ELSE end_date
             s == IF days # NULL /\ days # 0 THEN Today - days ELSE start_date
         IN  Once(MetricsOf, GetAll(t, s, e))

\* MetricsEngine.get_metrics_dataframe: [err, val]; val is the table, <<>>
\* for the empty DataFrame
GetMetricsDataframe(t, start_date, end_date, days) ==
    LET e == IF days # NULL /\ days # 0 THEN Today ELSE end_date
        s == IF days # NULL /\ days # 0 THEN Today - days ELSE start_date
    IN  Once(MetricsOf, GetAll(t, s, e))

\* one column of the table
Column(df, f) == [i \in 1..Len(df) |-> df[i][f]]

\* Series.dropna()
NotNa(col) == SelectSeq(col, LAMBDA v : v # NULL)

MinSeq(s) == CHOOSE m \in { s[k] : k \in 1..Len(s) } : \A k \in 1..Len(s) : m <= s[k]

MaxSeq(s) == CHOOSE m \in { s[k] : k \in 1..Len(s) } : \A k \in 1..Len(s) : m >= s[k]

\* Series.mean() over the non-null values, NaN if there are none
Mean(col) ==
    Once(LAMBDA obs : IF obs = <<>> THEN NaNAvg
                      ELSE [num |-> SumSeq(obs), den |-> Len(obs)], NotNa(col))

\* the stats dictionary of get_summary_stats for a non-empty table (the
\* standard deviation, which is not a rational number, is left out)
SummaryOf(df, days) ==
    LET n == Len(df)
    IN  [ period_days |-> days,
          data_coverage |-> [num |-> n * 100, den |-> days],
          weight_current_kg |-> df[n].bs_weight_kg,
          weight_start_kg |-> df[1].bs_weight_kg,
          weight_change_kg |-> df[n].bs_weight_kg - df[1].bs_weight_kg,
          weight_avg_kg |-> Mean(Column(df, "bs_weight_kg")),
          weight_min_kg |-> MinSeq(Column(df, "bs_weight_kg")),
          weight_max_kg |-> MaxSeq(Column(df, "bs_weight_kg")),
          bf_current_pct |-> df[n].bs_bodyfat_pct,
          bf_avg_pct |-> Mean(Column(df, "bs_bodyfat_pct")),
          fm_current_kg |-> df[n].bs_fat_mass_kg,
          fm_avg_kg |-> Mean(Column(df, "bs_fat_mass_kg")),
          cal_net_avg_kcal |-> Mean(Column(df, "cal_net_kcal")),
          cal_in_avg_kcal |-> Mean(Column(df, "cal_in_kcal")),
          cal_out_sport_avg_kcal |-> Mean(Column(df, "cal_out_sport_kcal")),
          cal_out_bmr_kcal |-> BMR,
          cal_out_total_avg_kcal |->
              Once(LAMBDA m : IF IsNaN(m) THEN [num |-> BMR, den |-> 1]
                              ELSE [num |-> BMR * m.den + m.num, den |-> m.den],
                   Mean(Column(df, "cal_out_sport_kcal"))),
          weight_7d_avg_kg |-> df[n].bs_weight_7d_avg_kg,
          weight_14d_avg_kg |-> df[n].bs_weight_14d_avg_kg ]

\* MetricsEngine.get_summary_stats: <<>> stands for {}, <<stats>> for the dict
GetSummaryStats(t, days) ==
    Once(LAMBDA got :
           IF got.err # "None" THEN [err |-> got.err, val |-> <<>>]
           ELSE IF got.val = <<>> THEN [err |-> "None", val |-> <<>>]
           ELSE [err |-> "None", val |-> << SummaryOf(got.val, days) >>],
         GetMetricsDataframe(t, NULL, NULL, days))

(***************************************************************************)
(* core/kpi_engine.py                                                      *)
(***************************************************************************)
\* number of rows of df whose column f is not null
CountNotNa(df, f) == Cardinality({ i \in 1..Len(df) : df[i][f] # NULL })

\* rows of df that have a 7-day rolling average of the weight
WithAvg7(df) == SelectSeq(df, LAMBDA r : ~IsNaN(r.bs_weight_7d_avg_kg))

\* the minimum-data gate of each _kpi_* method, in the order compute_all_kpis
\* calls them; a method whose gate fails returns None
KpiGates(df) ==
    << [id |-> "KPI_Weight_Trend_7d", emit |-> Len(df) >= 7 /\ Len(WithAvg7(df)) >= 7],
       [id |-> "KPI_Weight_Change_30d", emit |-> Len(df) >= 2],
       [id |-> "KPI_BF_Change_30d", emit |-> CountNotNa(df, "bs_bodyfat_pct") >= 2],
       [id |-> "KPI_FatMass_Change_30d", emit |-> CountNotNa(df, "bs_fat_mass_kg") >= 2],
       [id |-> "KPI_NetCalories_7d", emit |-> CountNotNa(df, "cal_net_kcal") >= 1],
       [id |-> "KPI_Intake_7d", emit |-> CountNotNa(df, "cal_in_kcal") >= 1],
       [id |-> "KPI_Sport_7d", emit |-> CountNotNa(df, "cal_out_sport_kcal") >= 1],
       [id |-> "KPI_Consistency_Coverage_30d", emit |-> TRUE],
       [id |-> "KPI_Volatility_Weight_14d", emit |-> Len(df) >= 14],
       [id |-> "KPI_Streak_Days", emit |-> Len(df) >= 1],
       [id |-> "KPI_Goal_ETA", emit |-> Len(df) >= 14],
       [id |-> "KPI_Adherence_Score", emit |-> Len(df) >= 7] >>

\* a KPI object: id, value and is_good. The value is a whole number of the
\* KPI's last reported digit (hundredths of a kilogram or of a percentage
\* point, tenths of a percent, kilocalories, days, points); NULL stands for
\* None. is_good is "True", "False" or "None"
Kpi(id, value, is_good) == [id |-> id, value |-> value, is_good |-> is_good]

\* the judgment turned around
JudgeInverted(cond) == IF cond THEN "False" ELSE "True"

Judge(cond) == IF cond THEN "True" ELSE "False"

\* round(num / den), den > 0, to the nearest whole number, a tie to the even one
RoundHalfEven(num, den) ==
    LET q == num \div den
        r == num - q * den
    IN  IF 2 * r < den THEN q
        ELSE IF 2 * r > den THEN q + 1
        ELSE IF q % 2 = 0 THEN q ELSE q + 1

\* np.polyfit(np.arange(len(y)), y, 1)[0]: the least-squares slope of y over
\* the row index 0, 1, ..., as the fraction num / den
PolyfitSlope(y) ==
    LET n   == Len(y)
        sx  == SumSeq([i \in 1..n |-> i - 1])
        sxx == SumSeq([i \in 1..n |-> (i - 1) * (i - 1)])
    IN  [ num |-> n * SumSeq([i \in 1..n |-> (i - 1) * y[i]]) - sx * SumSeq(y),
          den |-> n * sxx - sx * sx ]

\* the slope of the last 7 rows that have a 7-day average, over their
\* averages in 1/WeightScale tenths of a kilogram
TrendSlope7(df) ==
    Once(LAMBDA recent :
           PolyfitSlope([i \in 1..Len(recent) |-> Scaled(recent[i].bs_weight_7d_avg_kg)]),
         TailRows(WithAvg7(df), 7))

\* _kpi_weight_trend_7d: trend_per_week = slope * 7, reported in kg to 2 digits
KpiWeightTrend7d(df) ==
    Once(LAMBDA slope :
           Kpi("KPI_Weight_Trend_7d",
               RoundHalfEven(70 * slope.num, slope.den * WeightScale),
               Judge(slope.num < 0)),
         TrendSlope7(df))

\* _kpi_weight_change_30d: last minus first 7-day average when two rows have
\* one, last minus first raw weight otherwise; in 1/WeightScale tenths
WeightChange(df) ==
    Once(LAMBDA df_with_avg :
           IF Len(df_with_avg) >= 2
           THEN Scaled(df_with_avg[Len(df_with_avg)].bs_weight_7d_avg_kg)
                  - Scaled(df_with_avg[1].bs_weight_7d_avg_kg)
           ELSE (df[Len(df)].bs_weight_kg - df[1].bs_weight_kg) * WeightScale,
         WithAvg7(df))

KpiWeightChange30d(df) ==
    Once(LAMBDA change :
           Kpi("KPI_Weight_Change_30d", RoundHalfEven(10 * change, WeightScale),
               Judge(change < 0)),
         WeightChange(df))

\* last minus first non-null value of column f
ChangeOf(df, f) ==
    Once(LAMBDA col : col[Len(col)] - col[1], NotNa(Column(df, f)))

\* _kpi_bf_change_30d: tenths of a point reported to 2 digits
KpiBfChange30d(df) ==
    Once(LAMBDA change : Kpi("KPI_BF_Change_30d", 10 * change, Judge(change < 0)),
         ChangeOf(df, "bs_bodyfat_pct"))

\* _kpi_fat_mass_change_30d: 1e-4 kg reported to 2 digits
KpiFatMassChange30d(df) ==
    Once(LAMBDA change :
           Kpi("KPI_FatMass_Change_30d", RoundHalfEven(change, 100), Judge(change < 0)),
         ChangeOf(df, "bs_fat_mass_kg"))

\* the mean of column f over the rows of the last 7 calendar days
MeanOfLast7Days(df, f) ==
    Mean(Column(SelectSeq(df, LAMBDA r : r.date > df[Len(df)].date - 7), f))

\* cal_data.tail(7)[f].mean(): the mean of column f over the last 7 rows in
\* which it is not null
MeanOfLast7(df, f) == Mean(TailRows(NotNa(Column(df, f)), 7))

\* _kpi_net_calories_7d
KpiNetCalories7d(df) ==
    Once(LAMBDA avg_net :
           Kpi("KPI_NetCalories_7d", RoundHalfEven(avg_net.num, avg_net.den),
               Judge(avg_net.num < 0)),
         MeanOfLast7(df, "cal_net_kcal"))

\* _kpi_intake_7d
KpiIntake7d(df) ==
    Once(LAMBDA avg_in :
           Kpi("KPI_Intake_7d", RoundHalfEven(avg_in.num, avg_in.den), "None"),
         MeanOfLast7(df, "cal_in_kcal"))

\* _kpi_sport_7d: good with the unrounded mean at 300 or more
KpiSport7d(df) ==
    Once(LAMBDA avg_sport :
           Kpi("KPI_Sport_7d", RoundHalfEven(avg_sport.num, avg_sport.den),
               Judge(avg_sport.num >= 300 * avg_sport.den)),
         MeanOfLast7(df, "cal_out_sport_kcal"))

\* complete = rows with both cal_in_kcal and cal_out_sport_kcal
CompleteRows(df) ==
    Cardinality({ i \in 1..Len(df) :
                    df[i].cal_in_kcal # NULL /\ df[i].cal_out_sport_kcal # NULL })

\* _kpi_consistency_coverage_30d: coverage = len(complete) / days * 100,
\* reported to 1 digit
KpiConsistencyCoverage30d(df, days) ==
    Once(LAMBDA complete :
           Kpi("KPI_Consistency_Coverage_30d", RoundHalfEven(1000 * complete, days),
               Judge(100 * complete >= 80 * days)),
         CompleteRows(df))

\* df.tail(14)['bs_weight_kg'].std() squared, in tenths of a kilogram
\* squared, as the fraction num / den: the sample variance of n values is
\* (n * sum(y**2) - sum(y)**2) / (n * (n - 1))
Variance14(df) ==
    Once(LAMBDA y :
           [ num |-> Len(y) * SumSeq([i \in 1..Len(y) |-> y[i] * y[i]])
                       - SumSeq(y) * SumSeq(y),
             den |-> Len(y) * (Len(y) - 1) ],
         Column(TailRows(df, 14), "bs_weight_kg"))

\* round(std, 2) in hundredths of a kilogram: the whole number v nearest to
\* 10 * sqrt(num / den), that is (2v - 1)**2 <= 400 * num / den <= (2v + 1)**2
StdRounded(var) ==
    CHOOSE v \in 0..1500 :
        /\ (v = 0 \/ (2 * v - 1) * (2 * v - 1) * var.den <= 400 * var.num)
        /\ 400 * var.num < (2 * v + 1) * (2 * v + 1) * var.den

\* _kpi_volatility_weight_14d: good with std < 1.0 kg, 10 tenths
KpiVolatilityWeight14d(df) ==
    Once(LAMBDA var :
           Kpi("KPI_Volatility_Weight_14d", StdRounded(var),
               Judge(var.num < 100 * var.den)),
         Variance14(df))

\* a streak that counts every row of the table, whatever the gaps
StreakAnyGap(df) == Len(df)

\* the loop of _kpi_streak_days: the rows counted from the most recent one
\* back, each exactly one day before the one counted before it
Streak(df) ==
    Cardinality({ i \in 1..Len(df) :
                    \A j \in i..(Len(df) - 1) : df[j + 1].date - df[j].date = 1 })

\* _kpi_streak_days
KpiStreakDays(df) ==
    Once(LAMBDA streak : Kpi("KPI_Streak_Days", streak, Judge(streak >= 7)),
         Streak(df))

\* KPIEngine(storage, target_weight_kg=75.0)
TargetWeightKg == 750

\* current_weight taken from the raw weight alone
CurrentWeightRaw(df) == df[Len(df)].bs_weight_kg * WeightScale

\* current_weight of _kpi_goal_eta: the last 7-day average if a row has one,
\* the last raw weight otherwise; in 1/WeightScale tenths
CurrentWeight(df) ==
    Once(LAMBDA df_with_avg :
           IF Len(df_with_avg) > 0
           THEN Scaled(df_with_avg[Len(df_with_avg)].bs_weight_7d_avg_kg)
           ELSE df[Len(df)].bs_weight_kg * WeightScale,
         WithAvg7(df))

\* eta_days = weight_to_lose / abs(slope) for a negative slope, as a fraction
EtaDays(current_weight, slope) ==
    [ num |-> (current_weight - TargetWeightKg * WeightScale) * slope.den,
      den |-> WeightScale * Abs(slope.num) ]

\* _kpi_goal_eta: the slope of the last 14 raw weights; no ETA unless it is
\* negative
KpiGoalEta(df) ==
    Once(LAMBDA slope :
           IF slope.num >= 0 THEN Kpi("KPI_Goal_ETA", NULL, "False")
           ELSE Once(LAMBDA eta_days :
                       Kpi("KPI_Goal_ETA", RoundHalfEven(eta_days.num, eta_days.den),
                           Judge(eta_days.num <= 120 * eta_days.den)),
                     EtaDays(CurrentWeight(df), slope)),
         PolyfitSlope(Column(TailRows(df, 14), "bs_weight_kg")))

\* coverage penalty: (90 - coverage) / 3 with coverage below 90
CoveragePenalty(complete, days) ==
    IF 100 * complete < 90 * days
    THEN [num |-> 90 * days - 100 * complete, den |-> 3 * days]
    ELSE [num |-> 0, den |-> 1]

\* trend penalty: slope * 7 in kg per week; 30 if it is > 0, 15 if it is
\* > -0.2, which is slope.num / slope.den > -120 in 1/WeightScale tenths a day
TrendPenalty(df) ==
    IF Len(WithAvg7(df)) >= 7
    THEN Once(LAMBDA slope : IF slope.num > 0 THEN 30
                             ELSE IF slope.num > (0 - 120) * slope.den THEN 15
                             ELSE 0,
              TrendSlope7(df))
    ELSE 0

\* consistency penalty: (7 - streak) * 3 with a streak under 7
StreakPenalty(streak) == IF streak < 7 THEN (7 - streak) * 3 ELSE 0

\* volatility penalty: min(20, (std - 1.5) * 10) with std > 1.5 kg. In tenths
\* of a kilogram that is std - 15 capped at 20: zero up to a variance of 225,
\* 20 from a variance of 1225 on, and between the two std is sqrt(num / den) =
\* r / den with r the root of num * den (the weights of a track are chosen to
\* make that root a whole number)
VolatilityPenalty(df) ==
    IF Len(df) < 14 THEN [num |-> 0, den |-> 1]
    ELSE Once(LAMBDA var :
                IF var.num <= 225 * var.den THEN [num |-> 0, den |-> 1]
                ELSE IF var.num >= 1225 * var.den THEN [num |-> 20, den |-> 1]
                ELSE [ num |-> (CHOOSE r \in (15 * var.den)..(35 * var.den) :
                                   r * r = var.num * var.den) - 15 * var.den,
                       den |-> var.den ],
              Variance14(df))

\* score = max(0, min(100, score)), on a fraction
Clamp(score) ==
    IF score.num < 0 THEN [num |-> 0, den |-> score.den]
    ELSE IF score.num > 100 * score.den THEN [num |-> 100 * score.den, den |-> score.den]
    ELSE score

\* the score of _kpi_adherence_score before it is clamped: 100 less the four
\* penalties, as a fraction
RawScore(cp, tp, sp, vp) ==
    [ num |-> (100 - tp - sp) * cp.den * vp.den - cp.num * vp.den - vp.num * cp.den,
      den |-> cp.den * vp.den ]

\* the score without the consistency penalty
AdherenceScoreNoStreak(df, days) ==
    Clamp(RawScore(CoveragePenalty(CompleteRows(df), days), TrendPenalty(df),
                   0, VolatilityPenalty(df)))

\* the clamped score of _kpi_adherence_score
AdherenceScore(df, days) ==
    Clamp(RawScore(CoveragePenalty(CompleteRows(df), days), TrendPenalty(df),
                   StreakPenalty(Streak(df)), VolatilityPenalty(df)))

\* _kpi_adherence_score
KpiAdherenceScore(df, days) ==
    Once(LAMBDA score :
           Kpi("KPI_Adherence_Score", RoundHalfEven(score.num, score.den),
               Judge(score.num >= 70 * score.den)),
         AdherenceScore(df, days))

\* the KPI each _kpi_* method returns once its gate has passed
KpiOf(df, days, id) ==
    CASE id = "KPI_Weight_Trend_7d" -> KpiWeightTrend7d(df)
      [] id = "KPI_Weight_Change_30d" -> KpiWeightChange30d(df)
      [] id = "KPI_BF_Change_30d" -> KpiBfChange30d(df)
      [] id = "KPI_FatMass_Change_30d" -> KpiFatMassChange30d(df)
      [] id = "KPI_NetCalories_7d" -> KpiNetCalories7d(df)
      [] id = "KPI_Intake_7d" -> KpiIntake7d(df)
      [] id = "KPI_Sport_7d" -> KpiSport7d(df)
      [] id = "KPI_Consistency_Coverage_30d" -> KpiConsistencyCoverage30d(df, days)
      [] id = "KPI_Volatility_Weight_14d" -> KpiVolatilityWeight14d(df)
      [] id = "KPI_Streak_Days" -> KpiStreakDays(df)
      [] id = "KPI_Goal_ETA" -> KpiGoalEta(df)
      [] id = "KPI_Adherence_Score" -> KpiAdherenceScore(df, days)

\* [kpi for kpi in kpis if kpi is not None]
KpisOf(df, days) ==
    Once(LAMBDA kept : [i \in 1..Len(kept) |-> KpiOf(df, days, kept[i].id)],
         SelectSeq(KpiGates(df), LAMBDA g : g.emit))

\* KPIEngine.compute_all_kpis: [err, val]
ComputeAllKpis(t, days) ==
    Once(LAMBDA got :
           IF got.err # "None" THEN [err |-> got.err, val |-> <<>>]
           ELSE IF got.val = <<>> THEN [err |-> "None", val |-> <<>>]
           ELSE [err |-> "None", val |-> KpisOf(got.val, days)],
         GetMetricsDataframe(t, NULL, NULL, days))

(***************************************************************************)
(* core/red_flags.py                                                       *)
(***************************************************************************)
\* one RedFlag: its id (without the date suffix of the per-day flags), its
\* severity and category, dates_affected, and its value as a fraction in the
\* unit of the column it is taken from
Flag(id, severity, category, dates, value) ==
    [id |-> id, severity |-> severity, category |-> category, dates |-> dates,
     value |-> value]

FlagIf(cond, id, severity, category, dates, value) ==
    IF cond THEN << Flag(id, severity, category, dates, value) >> ELSE <<>>

\* a whole number as a fraction
Whole(n) == [num |-> n, den |-> 1]

\* concatenation of a sequence of sequences
Flatten(ss) ==
    LET F[k \in 0..Len(ss)] == IF k = 0 THEN <<>> ELSE F[k - 1] \o ss[k]
    IN  F[Len(ss)]

\* numerator of a - b for two means a, b (the denominators are positive)
DiffNum(a, b) == a.num * b.den - b.num * a.den

\* _detect_missing_data
DetectMissingData(df, days) ==
    LET n == Len(df)
        gaps == { df[i].date - df[i - 1].date : i \in 2..n }
        max_gap == CHOOSE g \in gaps : \A h \in gaps : h <= g
        gap_idx == CHOOSE i \in 2..n :
                      /\ df[i].date - df[i - 1].date = max_gap
                      /\ \A j \in 2..(i - 1) : df[j].date - df[j - 1].date < max_gap
    IN  (IF n * 100 < 50 * days THEN << Flag("RF_MissingData_Low", "high", "data_quality", <<>>,
                                         [num |-> 100 * n, den |-> days]) >>
         ELSE IF n * 100 < 70 * days THEN << Flag("RF_MissingData_Medium", "medium", "data_quality",
                        <<>>, [num |-> 100 * n, den |-> days]) >>
         ELSE <<>>)
        \o (IF n > 1 /\ max_gap > 7
            THEN << Flag("RF_LongGap", "medium", "data_quality",
                        << df[gap_idx].date >>, Whole(max_gap)) >>
            ELSE <<>>)

\* _detect_inconsistent_tracking with a coverage of exactly 30 % or 50 %
\* counted as inconsistent
DetectInconsistentTrackingAtThreshold(df) ==
    LET total == Len(df)
        bf == CountNotNa(df, "bs_bodyfat_pct")
        cal == CountNotNa(df, "cal_in_kcal")
    IN  FlagIf(0 < bf /\ bf * 100 <= 30 * total, "RF_InconsistentBF", "low",
               "data_quality", <<>>, [num |-> 100 * bf, den |-> total])
        \o FlagIf(0 < cal /\ cal * 100 <= 50 * total, "RF_InconsistentCalories",
                  "medium", "data_quality", <<>>, [num |-> 100 * cal, den |-> total])

\* _detect_inconsistent_tracking
DetectInconsistentTracking(df) ==
    LET total == Len(df)
        bf == CountNotNa(df, "bs_bodyfat_pct")
        cal == CountNotNa(df, "cal_in_kcal")
    IN  FlagIf(0 < bf /\ bf * 100 < 30 * total, "RF_InconsistentBF", "low",
               "data_quality", <<>>, [num |-> 100 * bf, den |-> total])
        \o FlagIf(0 < cal /\ cal * 100 < 50 * total, "RF_InconsistentCalories",
                  "medium", "data_quality", <<>>, [num |-> 100 * cal, den |-> total])

\* the longest run of equal weights over rows that are one calendar day apart
MaxStreakOfDays(df) ==
    LET IsRun(i, j) == \A k \in (i + 1)..j :
                          /\ df[k].bs_weight_kg = df[k - 1].bs_weight_kg
                          /\ df[k].date - df[k - 1].date = 1
        lens == { p[2] - p[1] + 1 : p \in
                    { q \in (1..Len(df)) \X (1..Len(df)) : q[1] <= q[2] /\ IsRun(q[1], q[2]) } }
    IN  CHOOSE m \in lens : \A l \in lens : l <= m

\* max_streak of _detect_duplicate_patterns: the longest run of equal weights
MaxStreak(df) ==
    LET runs == { j - i + 1 : i \in 1..Len(df), j \in 1..Len(df) }
        IsRun(i, j) == \A k \in (i + 1)..j : df[k].bs_weight_kg = df[k - 1].bs_weight_kg
        lens == { j - i + 1 : <<i, j>> \in
                    { p \in (1..Len(df)) \X (1..Len(df)) : p[1] <= p[2] /\ IsRun(p[1], p[2]) } }
    IN  CHOOSE m \in lens : \A l \in lens : l <= m

\* _detect_duplicate_patterns
DetectDuplicatePatterns(df) ==
    FlagIf(Len(df) >= 5 /\ MaxStreak(df) >= 7, "RF_IdenticalWeights", "low",
           "data_quality", <<>>, Whole(MaxStreak(df)))

\* _detect_extreme_weight_changes: one flag per row whose weight differs by
\* more than 2.0 kg from the row before
DetectExtremeWeightChanges(df) ==
    Flatten([i \in 1..Len(df) |->
               FlagIf(i >= 2 /\ Abs(df[i].bs_weight_kg - df[(IF i >= 2 THEN i - 1 ELSE 1)].bs_weight_kg) > 20,
                      "RF_ExtremeWeightChange", "high", "health", << df[i].date >>,
                      Whole(Abs(df[i].bs_weight_kg - df[(IF i >= 2 THEN i - 1 ELSE 1)].bs_weight_kg)))])

\* the last non-null value of the cal_net_7d_avg_kcal column, NaN if none
LatestNetAvg7(df) ==
    Once(LAMBDA rows : IF rows = <<>> THEN NaNAvg
                       ELSE rows[Len(rows)].cal_net_7d_avg_kcal,
         SelectSeq(df, LAMBDA r : ~IsNaN(r.cal_net_7d_avg_kcal)))

\* _detect_extreme_calorie_deficit with a deficit of exactly 1000 kcal
\* counted as extreme
DetectExtremeCalorieDeficitFrom1000(df) ==
    IF CountNotNa(df, "cal_net_kcal") = 0 THEN <<>>
    ELSE Once(LAMBDA extreme_deficit :
                FlagIf(Len(extreme_deficit) > 0, "RF_ExtremeDeficit", "critical",
                       "health", Column(extreme_deficit, "date"),
                       Mean(Column(extreme_deficit, "cal_net_kcal"))),
              SelectSeq(df, LAMBDA r : r.cal_net_kcal # NULL /\ r.cal_net_kcal <= -1000))
         \o Once(LAMBDA avg : FlagIf(~IsNaN(avg) /\ avg.num < -800 * avg.den,
                                     "RF_SustainedDeficit", "high", "health", <<>>, avg),
                 LatestNetAvg7(df))

\* _detect_extreme_calorie_deficit
DetectExtremeCalorieDeficit(df) ==
    IF CountNotNa(df, "cal_net_kcal") = 0 THEN <<>>
    ELSE Once(LAMBDA extreme_deficit :
                FlagIf(Len(extreme_deficit) > 0, "RF_ExtremeDeficit", "critical",
                       "health", Column(extreme_deficit, "date"),
                       Mean(Column(extreme_deficit, "cal_net_kcal"))),
              SelectSeq(df, LAMBDA r : r.cal_net_kcal # NULL /\ r.cal_net_kcal < -1000))
         \o Once(LAMBDA avg : FlagIf(~IsNaN(avg) /\ avg.num < -800 * avg.den,
                                     "RF_SustainedDeficit", "high", "health", <<>>, avg),
                 LatestNetAvg7(df))

\* _detect_extreme_calorie_surplus
DetectExtremeCalorieSurplus(df) ==
    Once(LAMBDA large_surplus :
           FlagIf(Len(large_surplus) > 3, "RF_FrequentSurplus", "medium", "progress",
                  Column(large_surplus, "date"),
                  Mean(Column(large_surplus, "cal_net_kcal"))),
         SelectSeq(df, LAMBDA r : r.cal_net_kcal # NULL /\ r.cal_net_kcal > 500))

\* _detect_low_calorie_intake
DetectLowCalorieIntake(df) ==
    Once(LAMBDA low_intake :
           FlagIf(Len(low_intake) > 5, "RF_LowIntake", "critical", "health",
                  Column(low_intake, "date"), Mean(Column(low_intake, "cal_in_kcal"))),
         SelectSeq(df, LAMBDA r : r.cal_in_kcal # NULL /\ r.cal_in_kcal < 1200))

\* _detect_rapid_fat_loss: fat mass is in 1e-4 kg, so 3.0 kg is 30000
DetectRapidFatLoss(df) ==
    Once(LAMBDA fm : IF Len(fm) < 14 THEN <<>>
                     ELSE FlagIf(fm[Len(fm)].bs_fat_mass_kg
                                   - fm[Len(fm) - 13].bs_fat_mass_kg < -30000,
                                 "RF_RapidFatLoss", "high", "health", <<>>,
                                 Whole(fm[Len(fm)].bs_fat_mass_kg
                                         - fm[Len(fm) - 13].bs_fat_mass_kg)),
         SelectSeq(df, LAMBDA r : r.bs_fat_mass_kg # NULL))

\* _detect_weight_plateaus: |end_avg - start_avg| < 0.3 kg over the last 14
\* rows that have a 14-day average
DetectWeightPlateaus(df) ==
    IF Len(df) < 14 THEN <<>>
    ELSE Once(LAMBDA recent :
                IF Len(recent) < 10 THEN <<>>
                ELSE FlagIf(Abs(DiffNum(recent[Len(recent)].bs_weight_14d_avg_kg,
                                        recent[1].bs_weight_14d_avg_kg))
                              < 3 * recent[Len(recent)].bs_weight_14d_avg_kg.den
                                  * recent[1].bs_weight_14d_avg_kg.den,
                            "RF_Plateau", "low", "progress", <<>>,
                            [ num |-> Abs(DiffNum(recent[Len(recent)].bs_weight_14d_avg_kg,
                                                  recent[1].bs_weight_14d_avg_kg)),
                              den |-> recent[Len(recent)].bs_weight_14d_avg_kg.den
                                        * recent[1].bs_weight_14d_avg_kg.den ]),
              TailRows(SelectSeq(df, LAMBDA r : ~IsNaN(r.bs_weight_14d_avg_kg)), 14))

\* sign of the day-over-day change of the 7-day average at row i (0 if either
\* average is NaN, where the code skips the comparison)
TrendSign(df, i) ==
    IF i < 2 \/ IsNaN(df[i].bs_weight_7d_avg_kg)
             \/ IsNaN(df[(IF i >= 2 THEN i - 1 ELSE 1)].bs_weight_7d_avg_kg) THEN 0
    ELSE LET d == DiffNum(df[i].bs_weight_7d_avg_kg, df[i - 1].bs_weight_7d_avg_kg)
         IN  IF d > 0 THEN 1 ELSE IF d < 0 THEN -1 ELSE 0

\* _detect_yo_yo_pattern
DetectYoYoPattern(df) ==
    IF Len(df) < 30 THEN <<>>
    ELSE Once(LAMBDA direction_changes :
                FlagIf(direction_changes > 4, "RF_YoYo", "medium", "consistency", <<>>,
                       Whole(direction_changes)),
              Cardinality({ i \in 2..Len(df) :
                              TrendSign(df, i) * TrendSign(df, i - 1) < 0 }))

\* _detect_inconsistent_bodyfat: one flag per body-fat measurement that
\* differs by more than 2 points from the measurement before
DetectInconsistentBodyfat(df) ==
    Once(LAMBDA bf :
           IF Len(bf) < 5 THEN <<>>
           ELSE Flatten([i \in 1..Len(bf) |->
                  FlagIf(i >= 2 /\ Abs(bf[i].bs_bodyfat_pct
                                         - bf[(IF i >= 2 THEN i - 1 ELSE 1)].bs_bodyfat_pct) > 20,
                         "RF_InconsistentBF_Day", "low", "data_quality",
                         << bf[i].date >>,
                         Whole(Abs(bf[i].bs_bodyfat_pct
                                     - bf[(IF i >= 2 THEN i - 1 ELSE 1)].bs_bodyfat_pct)))]),
         SelectSeq(df, LAMBDA r : r.bs_bodyfat_pct # NULL))

\* _detect_stalled_progress with an end weight of exactly 75 kg counted as
\* still above the threshold
DetectStalledProgressFrom75(df) ==
    IF Len(df) < 21 THEN <<>>
    ELSE FlagIf(Abs(df[Len(df)].bs_weight_kg - df[1].bs_weight_kg) < 5
                  /\ df[Len(df)].bs_weight_kg >= 750,
                "RF_StalledProgress", "medium", "progress", <<>>,
                Whole(Abs(df[Len(df)].bs_weight_kg - df[1].bs_weight_kg)))

\* _detect_stalled_progress
DetectStalledProgress(df) ==
    IF Len(df) < 21 THEN <<>>
    ELSE FlagIf(Abs(df[Len(df)].bs_weight_kg - df[1].bs_weight_kg) < 5
                  /\ df[Len(df)].bs_weight_kg > 750,
                "RF_StalledProgress", "medium", "progress", <<>>,
                Whole(Abs(df[Len(df)].bs_weight_kg - df[1].bs_weight_kg)))

\* _detect_unexpected_weight_gain
DetectUnexpectedWeightGain(df) ==
    IF Len(df) < 14 THEN <<>>
    ELSE Once(LAMBDA avg :
                FlagIf(avg.den >= 7 /\ avg.num < -200 * avg.den
                         /\ df[Len(df)].bs_weight_kg - df[1].bs_weight_kg > 5,
                       "RF_UnexpectedGain", "high", "progress", <<>>,
                       Whole(df[Len(df)].bs_weight_kg - df[1].bs_weight_kg)),
              Mean(Column(df, "cal_net_kcal")))

\* the body of detect_all_flags on a non-empty table: every detector, in the
\* order the code calls them
FlagsOf(df, days) ==
    DetectMissingData(df, days) \o DetectInconsistentTracking(df)
      \o DetectDuplicatePatterns(df) \o DetectExtremeWeightChanges(df)
      \o DetectExtremeCalorieDeficit(df) \o DetectExtremeCalorieSurplus(df)
      \o DetectLowCalorieIntake(df) \o DetectRapidFatLoss(df)
      \o DetectWeightPlateaus(df) \o DetectYoYoPattern(df)
      \o DetectInconsistentBodyfat(df) \o DetectStalledProgress(df)
      \o DetectUnexpectedWeightGain(df)

\* detect_all_flags without the early return on an empty table
DetectAllFlagsNoEmptyCheck(t, days) ==
    Once(LAMBDA got :
           IF got.err # "None" THEN [err |-> got.err, val |-> <<>>]
           ELSE [err |-> "None", val |-> FlagsOf(got.val, days)],
         GetMetricsDataframe(t, NULL, NULL, days))

\* RedFlagsEngine.detect_all_flags: [err, val]
DetectAllFlags(t, days) ==
    Once(LAMBDA got :
           IF got.err # "None" THEN [err |-> got.err, val |-> <<>>]
           ELSE IF got.val = <<>> THEN [err |-> "None", val |-> <<>>]
           ELSE [err |-> "None", val |-> FlagsOf(got.val, days)],
         GetMetricsDataframe(t, NULL, NULL, days))

(***************************************************************************)
(* core/forecast.py                                                        *)
(***************************************************************************)
NoForecast == [chosen |-> "none", points |-> <<>>, summary |-> <<>>]

\* the points of a loop over range(horizon_days): the first is dated on
\* last_date itself
ForecastPointsFromZero(last_date, horizon_days, method) ==
    [i \in 1..horizon_days |-> [date |-> last_date + i - 1, method |-> method]]

\* the Forecast points of either method: one per day i in 1..horizon_days,
\* dated last_date + timedelta(days=i)
ForecastPoints(last_date, horizon_days, method) ==
    [i \in 1..horizon_days |-> [date |-> last_date + i, method |-> method]]

\* the rows _forecast_linear fits: those with a 7-day average if there are at
\* least 7 of them, else all rows
TrendRows(df) ==
    Once(LAMBDA df_with_avg : IF Len(df_with_avg) >= 7 THEN df_with_avg ELSE df,
         WithAvg7(df))

\* y = df_trend[weight_col].values: the 7-day average when the trend rows are
\* those that have one, the raw weight otherwise; in 1/WeightScale tenths
TrendY(df, df_trend) ==
    IF Len(WithAvg7(df)) >= 7
    THEN [i \in 1..Len(df_trend) |-> Scaled(df_trend[i].bs_weight_7d_avg_kg)]
    ELSE [i \in 1..Len(df_trend) |-> df_trend[i].bs_weight_kg * WeightScale]

\* X = days_since_start: calendar days since the first trend row
TrendX(df_trend) == [i \in 1..Len(df_trend) |-> df_trend[i].date - df_trend[1].date]

\* the sums of the regression: slope = slope_num / slope_den, where
\* slope_num = n * sum(X * y) - sum(X) * sum(y) and
\* slope_den = n * sum(X**2) - sum(X)**2; y is in 1/WeightScale tenths
LinearFit(X, Y) ==
    LET n  == Len(X)
        sx == SumSeq(X)
    IN  [ n |-> n,
          sum_x |-> sx,
          slope_num |-> n * SumSeq([i \in 1..n |-> X[i] * Y[i]]) - sx * SumSeq(Y),
          slope_den |-> n * SumSeq([i \in 1..n |-> X[i] * X[i]]) - sx * sx ]

\* std_error == 0: sum(residuals**2) is zero exactly when every row lies on
\* the fitted line, which is when the rows lie on one line at all
StdErrorZero(X, Y) ==
    \A i \in 1..Len(X) :
        (Y[i] - Y[1]) * (X[2] - X[1]) = (Y[2] - Y[1]) * (X[i] - X[1])

\* the radicand of se_forecast over the common denominator n * slope_den:
\* 1 + 1/n + (forecast_day - mean_x)**2 / sum((X - mean_x)**2)
SeFactor(fit, forecast_day) ==
    (fit.n + 1) * fit.slope_den
      + (fit.n * forecast_day - fit.sum_x) * (fit.n * forecast_day - fit.sum_x)

\* days_to_target = (target_weight_kg - last_weight) / slope, as a fraction
DaysToTargetLinear(target_weight_kg, last_weight, fit) ==
    [ num |-> (target_weight_kg * WeightScale - last_weight) * fit.slope_den,
      den |-> fit.slope_num ]

\* the target-date estimate without the 365-day limit
TargetDateAnyHorizon(target_weight_kg, last_date, days_to_target) ==
    IF target_weight_kg = NULL \/ target_weight_kg = 0 \/ days_to_target.den = 0
    THEN NULL
    ELSE LET num == IF days_to_target.den < 0 THEN 0 - days_to_target.num
                    ELSE days_to_target.num
             den == Abs(days_to_target.den)
         IN  IF 0 < num THEN last_date + (num \div den) ELSE NULL

\* the target-date estimate of both methods: it needs a truthy target (None
\* and 0.0 are not), a non-zero rate and 0 < days_to_target <= 365, and adds
\* int(days_to_target) days to last_date; NULL stands for None
TargetDate(target_weight_kg, last_date, days_to_target) ==
    IF target_weight_kg = NULL \/ target_weight_kg = 0 \/ days_to_target.den = 0
    THEN NULL
    ELSE LET num == IF days_to_target.den < 0 THEN 0 - days_to_target.num
                    ELSE days_to_target.num
             den == Abs(days_to_target.den)
         IN  IF 0 < num /\ num <= 365 * den THEN last_date + (num \div den)
             ELSE NULL

\* the interval of each Forecast point: confidence_upper_kg -
\* confidence_lower_kg is 4 * se_forecast. ci_width_zero tells whether that
\* width is exactly zero, and ci_width_order is a number that grows with the
\* width among the points of one forecast whose widths are not zero
WithInterval(points, zero, order) ==
    [i \in 1..Len(points) |->
       points[i] @@ [ci_width_zero |-> zero, ci_width_order |-> order[i]]]

\* the ForecastSummary of either method; weights and rates are fractions of
\* tenths of a kilogram
Summary(horizon_days, start_weight, rate_per_week, target_weight_kg, target_date, method) ==
    [ horizon_days |-> horizon_days,
      start_weight_kg |-> start_weight,
      avg_rate_kg_per_week |-> rate_per_week,
      target_weight_kg |-> target_weight_kg,
      target_date |-> target_date,
      method |-> method ]

\* the forecasts and the summary _forecast_linear builds from the trend rows
LinearResult(df_trend, X, Y, fit, horizon_days, target_weight_kg) ==
    LET n         == Len(df_trend)
        last_date == df_trend[n].date
    IN  [ chosen |-> "linear",
          points |-> WithInterval(
              ForecastPoints(last_date, horizon_days, "linear"),
              StdErrorZero(X, Y),
              [i \in 1..horizon_days |-> SeFactor(fit, X[n] + i)]),
          summary |-> << Summary(
              horizon_days,
              [num |-> Y[n], den |-> WeightScale],
              [num |-> 7 * fit.slope_num, den |-> fit.slope_den * WeightScale],
              target_weight_kg,
              TargetDate(target_weight_kg, last_date,
                         DaysToTargetLinear(target_weight_kg, Y[n], fit)),
              "linear") >> ]

\* ForecastEngine._forecast_linear: the trend rows, the guard, the
\* regression, the points and the summary
ForecastLinear(df, horizon_days, target_weight_kg) ==
    Once(LAMBDA df_trend :
           IF Len(df_trend) < 7
           THEN [err |-> "InsufficientData", val |-> NoForecast]
           ELSE [err |-> "None",
                 val |-> Once(LAMBDA xy :
                                LinearResult(df_trend, xy[1], xy[2],
                                             LinearFit(xy[1], xy[2]),
                                             horizon_days, target_weight_kg),
                              << TrendX(df_trend), TrendY(df, df_trend) >>)],
         TrendRows(df))

\* 1 kg fat = 7700 kcal
KCAL_PER_KG_FAT == 7700

\* Series.std() == 0: every value of the column equals the first
AllEqual(col) == \A i \in 1..Len(col) : col[i] = col[1]

\* days_to_target = (target_weight_kg - last_weight) / daily_weight_change_kg
\* with daily_weight_change_kg = avg_net_kcal / KCAL_PER_KG_FAT, as a fraction
DaysToTargetCalories(target_weight_kg, last_weight, avg_net_kcal) ==
    [ num |-> (target_weight_kg - last_weight) * avg_net_kcal.den * KCAL_PER_KG_FAT,
      den |-> 10 * avg_net_kcal.num ]

\* the forecasts and the summary _forecast_calorie_based builds when at least
\* 7 rows have a net balance; the uncertainty of day i is
\* (weight_std * 0.5 + cal_std / KCAL_PER_KG_FAT * i * 0.5) * sqrt(i / 7)
CalorieResult(df, avg_net_kcal, horizon_days, target_weight_kg) ==
    LET last == df[Len(df)]
    IN  [ chosen |-> "calorie_based",
          points |-> WithInterval(
              ForecastPoints(last.date, horizon_days, "calorie_based"),
              AllEqual(Column(df, "bs_weight_kg"))
                /\ AllEqual(NotNa(Column(df, "cal_net_kcal"))),
              [i \in 1..horizon_days |-> i]),
          summary |-> << Summary(
              horizon_days,
              [num |-> last.bs_weight_kg, den |-> 1],
              [num |-> 70 * avg_net_kcal.num,
               den |-> avg_net_kcal.den * KCAL_PER_KG_FAT],
              target_weight_kg,
              TargetDate(target_weight_kg, last.date,
                         DaysToTargetCalories(target_weight_kg, last.bs_weight_kg,
                                              avg_net_kcal)),
              "calorie_based") >> ]

\* _forecast_calorie_based falling back to the linear method with 7 rows of
\* net calories as well
ForecastCalorieBasedFallbackAt7(df, horizon_days, target_weight_kg) ==
    IF CountNotNa(df, "cal_net_kcal") <= 7
    THEN ForecastLinear(df, horizon_days, target_weight_kg)
    ELSE [err |-> "None",
          val |-> Once(LAMBDA avg_net_kcal :
                         CalorieResult(df, avg_net_kcal, horizon_days,
                                       target_weight_kg),
                       Mean(Column(df, "cal_net_kcal")))]

\* ForecastEngine._forecast_calorie_based
ForecastCalorieBased(df, horizon_days, target_weight_kg) ==
    IF CountNotNa(df, "cal_net_kcal") < 7
    THEN ForecastLinear(df, horizon_days, target_weight_kg)
    ELSE [err |-> "None",
          val |-> Once(LAMBDA avg_net_kcal :
                         CalorieResult(df, avg_net_kcal, horizon_days,
                                       target_weight_kg),
                       Mean(Column(df, "cal_net_kcal")))]

\* ForecastEngine.calculate_target_calories: weights in tenths of a kilogram,
\* so 1 tenth is KCAL_PER_KG_FAT / 10 kcal; the quotients by target_days are
\* fractions, and target_days = 0 raises ZeroDivisionError
CalculateTargetCalories(target_weight_kg, target_days, current_weight_kg, avg_sport_kcal) ==
    LET weight_change_kg  == target_weight_kg - current_weight_kg
        total_kcal_needed == weight_change_kg * (KCAL_PER_KG_FAT \div 10)
    IN  IF target_days = 0 THEN [err |-> "ZeroDivisionError", val |-> <<>>]
        ELSE [ err |-> "None",
               val |-> << [ required_intake_kcal |->
                              [ num |-> total_kcal_needed
                                          + (BMR + avg_sport_kcal) * target_days,
                                den |-> target_days ],
                            daily_net_kcal |->
                              [num |-> total_kcal_needed, den |-> target_days],
                            weekly_rate_kg |->
                              [num |-> 7 * weight_change_kg, den |-> target_days],
                            total_change_kg |-> weight_change_kg,
                            is_healthy |->
                              Abs(7 * weight_change_kg) <= 10 * Abs(target_days) ] >> ]

\* has_calories measured against the rows of the table: notna().sum() >=
\* len(df) * 0.5
HasCaloriesOfRows(df, lookback_days) == 2 * CountNotNa(df, "cal_net_kcal") >= Len(df)

\* has_calories = df['cal_net_kcal'].notna().sum() >= lookback_days * 0.5
HasCalories(df, lookback_days) == 2 * CountNotNa(df, "cal_net_kcal") >= lookback_days

\* the method variable after the 'auto' branch of generate_forecast
ChooseMethod(df, lookback_days, method) ==
    IF method = "auto"
    THEN (IF HasCalories(df, lookback_days) THEN "calorie_based" ELSE "linear")
    ELSE method

\* the dispatch of generate_forecast on the method chosen; val.chosen records
\* the method the dispatch ran
Dispatch(df, chosen, horizon_days, target_weight_kg) ==
    Once(LAMBDA out : [err |-> out.err, val |-> [out.val EXCEPT !.chosen = chosen]],
         IF chosen = "calorie_based"
         THEN ForecastCalorieBased(df, horizon_days, target_weight_kg)
         ELSE ForecastLinear(df, horizon_days, target_weight_kg))

\* ForecastEngine.generate_forecast: [err, val]
GenerateForecast(t, horizon_days, lookback_days, target_weight_kg, method) ==
    Once(LAMBDA got :
           IF got.err # "None" THEN [err |-> got.err, val |-> NoForecast]
           ELSE IF got.val = <<>> \/ Len(got.val) < 7
           THEN [err |-> "InsufficientData", val |-> NoForecast]
           ELSE Dispatch(got.val, ChooseMethod(got.val, lookback_days, method),
                         horizon_days, target_weight_kg),
         GetMetricsDataframe(t, NULL, NULL, lookback_days))

Init ==
    /\ table = {}
    /\ seq = 0
    /\ result = [op |-> "init", args |-> <<>>, err |-> "None", val |-> <<>>]
    /\ allOk = TRUE

\* Storage.create with INSERT OR REPLACE: a second entry for a date replaces
\* the stored one
CreateOrReplace(d, e) ==
    /\ DailyEntryCreateValid(e)
    /\ (\E r \in table : r.date = d) \/ seq < MaxId
    /\ LET row == [ id |-> seq + 1, date |-> d, weight_kg |-> e.weight_kg,
                    bodyfat_pct |-> e.bodyfat_pct, cal_in_kcal |-> e.cal_in_kcal,
                    cal_out_sport_kcal |-> e.cal_out_sport_kcal,
                    notes |-> e.notes, source |-> e.source ]
           t2 == { r \in table : r.date # d } \cup {row}
           back == GetById(t2, seq + 1)
       IN  /\ table' = t2
           /\ seq' = seq + 1
           /\ result' = [op |-> "create", args |-> <<d, e>>,
                         err |-> back.err, val |-> back.val]
           /\ allOk' = (allOk /\ back.err = "None")

\* Storage.create
Create(d, e) ==
    /\ DailyEntryCreateValid(e)
    /\ (\E r \in table : r.date = d) \/ seq < MaxId
    /\ IF \E r \in table : r.date = d
       THEN \* UNIQUE(date): IntegrityError -> rollback -> ValueError
            /\ UNCHANGED <<table, seq>>
            /\ result' = [op |-> "create", args |-> <<d, e>>,
                          err |-> "AlreadyExists", val |-> <<>>]
            /\ allOk' = FALSE
       ELSE LET row == [ id |-> seq + 1, date |-> d, weight_kg |-> e.weight_kg,
                         bodyfat_pct |-> e.bodyfat_pct, cal_in_kcal |-> e.cal_in_kcal,
                         cal_out_sport_kcal |-> e.cal_out_sport_kcal,
                         notes |-> e.notes, source |-> e.source ]
                back == GetById(table \cup {row}, seq + 1)
            IN  /\ table' = table \cup {row}
                /\ seq' = seq + 1
                /\ result' = [op |-> "create", args |-> <<d, e>>,
                              err |-> back.err, val |-> back.val]
                /\ allOk' = (allOk /\ back.err = "None")

\* Storage.update
Update(entry_id, u) ==
    /\ DailyEntryUpdateValid(u)
    /\ LET existing == GetById(table, entry_id)
       IN  IF existing.err # "None"
           THEN /\ UNCHANGED <<table, seq>>
                /\ result' = [op |-> "update", args |-> <<entry_id, u>>,
                              err |-> existing.err, val |-> <<>>]
                /\ allOk' = FALSE
           ELSE IF existing.val = <<>>
           THEN /\ UNCHANGED <<table, seq>>
                /\ result' = [op |-> "update", args |-> <<entry_id, u>>,
                              err |-> "NotFound", val |-> <<>>]
                /\ allOk' = FALSE
           ELSE IF u.fields = {}
           THEN /\ UNCHANGED <<table, seq, allOk>>
                /\ result' = [op |-> "update", args |-> <<entry_id, u>>,
                              err |-> "None", val |-> existing.val]
           ELSE IF "weight_kg" \in u.fields /\ u.weight_kg = NULL
           THEN \* weight_kg REAL NOT NULL: IntegrityError, rollback
                /\ UNCHANGED <<table, seq>>
                /\ result' = [op |-> "update", args |-> <<entry_id, u>>,
                              err |-> "IntegrityError", val |-> <<>>]
                /\ allOk' = FALSE
           ELSE LET old == existing.val[1]
                    new == ApplyUpdate(old, u)
                    t2 == (table \ {old}) \cup {new}
                    back == GetById(t2, entry_id)
                IN  /\ table' = t2
                    /\ UNCHANGED seq
                    /\ result' = [op |-> "update", args |-> <<entry_id, u>>,
                                  err |-> back.err, val |-> back.val]
                    /\ allOk' = (allOk /\ back.err = "None")

\* Storage.delete
Delete(entry_id) ==
    /\ table' = { r \in table : r.id # entry_id }
    /\ UNCHANGED <<seq, allOk>>
    /\ result' = [op |-> "delete", args |-> <<entry_id>>, err |-> "None",
                  val |-> (\E r \in table : r.id = entry_id)]

\* Storage.count
CountCall ==
    /\ UNCHANGED <<table, seq, allOk>>
    /\ result' = [op |-> "count", args |-> <<>>, err |-> "None", val |-> Count(table)]

\* Storage.get_by_date
GetByDateCall(d) ==
    /\ UNCHANGED <<table, seq, allOk>>
    /\ \E got \in { GetByDate(table, d) } :
           result' = [op |-> "get_by_date", args |-> <<d>>, err |-> got.err,
                      val |-> got.val]

\* MetricsEngine.get_metrics_dataframe(start_date, end_date)
GetMetricsDataframeCall(start_date, end_date, days) ==
    /\ UNCHANGED <<table, seq, allOk>>
    /\ \E got \in { GetMetricsDataframe(table, start_date, end_date, days) } :
           result' = [op |-> "get_metrics_dataframe",
                      args |-> <<start_date, end_date, days>>,
                      err |-> got.err, val |-> got.val]

\* MetricsEngine.get_summary_stats(days)
GetSummaryStatsCall(days) ==
    /\ UNCHANGED <<table, seq, allOk>>
    /\ \E got \in { GetSummaryStats(table, days) } :
           result' = [op |-> "get_summary_stats", args |-> <<days>>,
                      err |-> got.err, val |-> got.val]

\* KPIEngine.compute_all_kpis(days)
ComputeAllKpisCall(days) ==
    /\ UNCHANGED <<table, seq, allOk>>
    /\ \E got \in { ComputeAllKpis(table, days) } :
           result' = [op |-> "compute_all_kpis", args |-> <<days>>,
                      err |-> got.err, val |-> got.val]

\* RedFlagsEngine.detect_all_flags(days)
DetectAllFlagsCall(days) ==
    /\ UNCHANGED <<table, seq, allOk>>
    /\ \E got \in { DetectAllFlags(table, days) } :
           result' = [op |-> "detect_all_flags", args |-> <<days>>,
                      err |-> got.err, val |-> got.val]

\* generate_forecast that also stores its first forecast point as the entry
\* of that day
GenerateForecastCallStoring(horizon_days, lookback_days, target_weight_kg, method) ==
    /\ UNCHANGED <<allOk>>
    /\ \E got \in { GenerateForecast(table, horizon_days, lookback_days,
                                       target_weight_kg, method) } :
           /\ result' = [op |-> "generate_forecast",
                         args |-> <<horizon_days, lookback_days, target_weight_kg, method>>,
                         err |-> got.err, val |-> got.val]
           /\ IF got.err = "None" /\ \A r \in table : r.date # got.val.points[1].date
              THEN /\ table' = table \cup
                          { [ id |-> seq + 1, date |-> got.val.points[1].date,
                              weight_kg |-> 850, bodyfat_pct |-> NULL,
                              cal_in_kcal |-> NULL, cal_out_sport_kcal |-> NULL,
                              notes |-> NoNotes, source |-> "forecast" ] }
                   /\ seq' = seq + 1
              ELSE UNCHANGED <<table, seq>>

\* ForecastEngine.generate_forecast(horizon_days, lookback_days, target, method)
GenerateForecastCall(horizon_days, lookback_days, target_weight_kg, method) ==
    /\ UNCHANGED <<table, seq, allOk>>
    /\ \E got \in { GenerateForecast(table, horizon_days, lookback_days,
                                       target_weight_kg, method) } :
           result' = [op |-> "generate_forecast",
                      args |-> <<horizon_days, lookback_days, target_weight_kg, method>>,
                      err |-> got.err, val |-> got.val]

\* ForecastEngine.calculate_target_calories(target, days, current, sport)
CalculateTargetCaloriesCall(target_weight_kg, target_days, current_weight_kg, avg_sport_kcal) ==
    /\ UNCHANGED <<table, seq, allOk>>
    /\ \E got \in { CalculateTargetCalories(target_weight_kg, target_days,
                                              current_weight_kg, avg_sport_kcal) } :
           result' = [op |-> "calculate_target_calories",
                      args |-> <<target_weight_kg, target_days, current_weight_kg,
                                 avg_sport_kcal>>,
                      err |-> got.err, val |-> got.val]

\* arguments the callers pass
Methods == {"auto", "linear", "calorie_based"}

Horizons == 1..MaxHorizon

Targets == {NULL}

\* days / lookback_days in the CRUD specification and over the time series
CrudDays == {1, 2}

SeriesDays == {6, SeriesLen}

\* (start_date, end_date, days) of get_metrics_dataframe in the CRUD specification
CrudRanges ==
    { <<NULL, NULL, NULL>>, <<Today, NULL, NULL>>, <<NULL, Today - 1, NULL>>,
      <<Today - 2, Today - 1, NULL>>, <<NULL, NULL, 1>>, <<NULL, NULL, 2>> }

Reads(dayset, horizons) ==
    \/ \E days \in dayset : GetSummaryStatsCall(days)
    \/ \E days \in dayset : ComputeAllKpisCall(days)
    \/ \E days \in dayset : DetectAllFlagsCall(days)
    \/ \E h \in horizons, lb \in dayset, tw \in Targets, m \in Methods :
          GenerateForecastCall(h, lb, tw, m)

Next ==
    \/ \E d \in CrudDates, e \in CreateInputs : Create(d, e)
    \/ \E i \in 1..MaxId, u \in UpdateInputs : Update(i, u)
    \/ \E i \in 1..MaxId : Delete(i)
    \/ CountCall
    \/ \E d \in CrudDates : GetByDateCall(d)
    \/ \E rg \in CrudRanges : GetMetricsDataframeCall(rg[1], rg[2], rg[3])
    \/ Reads(CrudDays, {1})

Spec == Init /\ [][Next]_vars

(***************************************************************************)
(* Time series: the store after one entry per day was logged over          *)
(* SeriesLen days with at most one day skipped and calories logged on      *)
(* some of the days; the engines are then called on it.                    *)
(***************************************************************************)
\* weight logged on day d: 85.0 kg falling by 0.1 kg a day
SeriesWeight(d) == 850 - d

\* net = 1600 - 2000 - 0 = -400 on the days calories were logged
SeriesCalIn == 1600

SeriesTable(present, cal) ==
    { [ id |-> Cardinality({x \in present : x <= d}), date |-> d,
        weight_kg |-> SeriesWeight(d), bodyfat_pct |-> NULL,
        cal_in_kcal |-> IF d \in cal THEN SeriesCalIn ELSE NULL,
        cal_out_sport_kcal |-> NULL, notes |-> NoNotes, source |-> "test" ]
      : d \in present }

\* the days calories were logged on: from the first day up to some day, from
\* some day on, or every other day
CalPatterns ==
    { 1..k : k \in 0..SeriesLen } \cup { k..SeriesLen : k \in 1..SeriesLen }
      \cup { { d \in 1..SeriesLen : d % 2 = 1 }, { d \in 1..SeriesLen : d % 2 = 0 } }

InitSeries ==
    /\ \E present \in SUBSET (1..SeriesLen) : \E cal \in CalPatterns :
          /\ Cardinality(present) >= SeriesLen - 1
          /\ table = SeriesTable(present, cal \cap present)
          /\ seq = Cardinality(present)
    /\ result = [op |-> "init", args |-> <<>>, err |-> "None", val |-> <<>>]
    /\ allOk = TRUE

\* target_days of calculate_target_calories: none, or a month
TargetDays == {0, 30}

NextSeries ==
    \/ \E days \in SeriesDays : GetMetricsDataframeCall(NULL, NULL, days)
    \/ Reads(SeriesDays, Horizons)
    \/ \E target_days \in TargetDays :
          CalculateTargetCaloriesCall(TargetWeightKg, target_days, SeriesWeight(SeriesLen), 0)

SpecSeries == InitSeries /\ [][NextSeries]_vars

(***************************************************************************)
(* Tracks: the store after TrackLen days of logging that end today, one    *)
(* entry a day with at most one day skipped. The weight, the body fat, the *)
(* intake and the exercise of day k follow a named pattern each.           *)
(***************************************************************************)
TrackLen == 14

TrackDays == 1..TrackLen

\* the date of the k-th day of a track; the last day is today
TrackDate(k) == Today - TrackLen + k

\* weight of day k, in tenths of a kilogram: constant, 0.1 kg down or up a
\* day from 85.0 kg, 0.1 kg down a day from 74.5 kg ("below"), or constant
\* with the last four days off by +1, -1, +5, -5 kg
\* ("wobble") or by +10, -10, +10, -10 kg ("swing")
TrackWeight(pattern, k) ==
    CASE pattern = "flat" -> 850
      [] pattern = "falling" -> 850 - k
      [] pattern = "rising" -> 850 + k
      [] pattern = "below" -> 745 - k
      [] pattern = "wobble" ->
           850 + (CASE k = TrackLen - 3 -> 10 [] k = TrackLen - 2 -> -10
                    [] k = TrackLen - 1 -> 50 [] k = TrackLen -> -50
                    [] OTHER -> 0)
      [] pattern = "swing" ->
           850 + (CASE k \in {TrackLen - 3, TrackLen - 1} -> 100
                    [] k \in {TrackLen - 2, TrackLen} -> -100
                    [] OTHER -> 0)

\* body fat of day k, in tenths of a percent: not measured, 20 % falling
\* by 0.1 a day, or 20 % measured every fourth day only
TrackBodyfat(pattern, k) ==
    CASE pattern = "none" -> NULL
      [] pattern = "falling" -> 200 - k
      [] pattern = "sparse" -> IF k % 4 = 1 THEN 200 ELSE NULL

\* intake of day k: not logged, 1600 kcal every day, on odd days only and
\* 10 kcal more each day, 1600 kcal with 900 kcal on every fourth day and
\* 1000 kcal two days later, or 1990 kcal every day
TrackCalIn(pattern, k) ==
    CASE pattern = "none" -> NULL
      [] pattern = "all" -> SeriesCalIn
      [] pattern = "odd" -> IF k % 2 = 1 THEN 1500 + 10 * k ELSE NULL
      [] pattern = "crash" -> IF k % 4 = 0 THEN 900
                              ELSE IF k % 4 = 2 THEN 1000 ELSE SeriesCalIn
      [] pattern = "slow" -> 1990

\* exercise of day k: not logged, 300 kcal every day, or 300 kcal with 298
\* kcal on the last day
TrackSport(pattern, k) ==
    CASE pattern = "none" -> NULL
      [] pattern = "all" -> 300
      [] pattern = "short" -> IF k = TrackLen THEN 298 ELSE 300

\* the stored rows of a track: pat names the pattern of each field
TrackTable(present, pat) ==
    { [ id |-> Cardinality({x \in present : x <= k}), date |-> TrackDate(k),
        weight_kg |-> TrackWeight(pat.weight, k),
        bodyfat_pct |-> TrackBodyfat(pat.bodyfat, k),
        cal_in_kcal |-> TrackCalIn(pat.cal_in, k),
        cal_out_sport_kcal |-> TrackSport(pat.sport, k),
        notes |-> NoNotes, source |-> "test" ]
      : k \in present }

\* the state after a track was logged
InitTrack(presents, pats) ==
    /\ \E present \in presents : \E pat \in pats :
          /\ table = TrackTable(present, pat)
          /\ seq = Cardinality(present)
    /\ result = [op |-> "init", args |-> <<>>, err |-> "None", val |-> <<>>]
    /\ allOk = TRUE

(***************************************************************************)
(* Forecasts over a track                                                  *)
(***************************************************************************)
\* every day logged, or the day five days back skipped
ForecastPresents == { TrackDays, TrackDays \ {TrackLen - 5} }

ForecastPatterns ==
    [ weight : {"flat", "falling", "wobble"}, bodyfat : {"none"},
      cal_in : {"none", "all", "slow"}, sport : {"none"} ]

\* target weights the callers pass: none, 0.0, 83.8 kg and 84.2 kg
ForecastTargets == {NULL, 0, 838, 842}

\* lookback_days: a week, or the whole track
ForecastDays == {6, TrackLen}

InitForecast == InitTrack(ForecastPresents, ForecastPatterns)

NextForecast ==
    \E h \in Horizons, lb \in ForecastDays, tw \in ForecastTargets, m \in Methods :
        GenerateForecastCall(h, lb, tw, m)

SpecForecast == InitForecast /\ [][NextForecast]_vars

(***************************************************************************)
(* KPIs and summary statistics over a track                                *)
(***************************************************************************)
\* every day logged, or the third day or the day five days back skipped
KpiPresents == { TrackDays, TrackDays \ {3}, TrackDays \ {TrackLen - 4} }

KpiPatterns ==
    [ weight : {"flat", "falling", "rising", "below", "wobble", "swing"},
      bodyfat : {"none", "falling"},
      cal_in : {"none", "all", "odd"}, sport : {"none", "short"} ]

\* days: a week, one day short of the track, or the whole track
KpiDays == {7, TrackLen - 1, TrackLen}

InitKpi == InitTrack(KpiPresents, KpiPatterns)

NextKpi ==
    \/ \E days \in KpiDays : ComputeAllKpisCall(days)
    \/ \E days \in KpiDays : GetSummaryStatsCall(days)

SpecKpi == InitKpi /\ [][NextKpi]_vars

(***************************************************************************)
(* Red flags over a track                                                  *)
(***************************************************************************)
\* every day logged, or the third day, the day five days back or yesterday
\* skipped
FlagPresents == KpiPresents \cup { TrackDays \ {TrackLen - 1} }

FlagPatterns ==
    [ weight : {"flat", "falling", "wobble"}, bodyfat : {"none", "sparse"},
      cal_in : {"none", "all", "crash", "odd"}, sport : {"none", "all"} ]

\* days: a week, nine days, or the whole track
FlagDays == {7, 9, TrackLen}

InitFlags == InitTrack(FlagPresents, FlagPatterns)

NextFlags == \E days \in FlagDays : DetectAllFlagsCall(days)

SpecFlags == InitFlags /\ [][NextFlags]_vars

(***************************************************************************)
(* Long tracks: the store after LongLen days of logging that end today,    *)
(* one entry a day with at most one day skipped; the windows of the        *)
(* plateau and stalled-progress rules and of the 30-day average need them  *)
(***************************************************************************)
LongLen == 21

LongDays == 1..LongLen

\* weight of day k of a long track, in tenths of a kilogram: constant at
\* 70.0, 75.0 or 75.1 kg, 0.1 kg down a day from 85.0 kg, or 76.0 kg with
\* the last day 0.4 kg ("slow") or 0.5 kg ("half") up
LongWeight(pattern, k) ==
    CASE pattern = "light" -> 700
      [] pattern = "edge" -> 750
      [] pattern = "heavy" -> 751
      [] pattern = "falling" -> 850 - k
      [] pattern = "slow" -> 760 + (IF k = LongLen THEN 4 ELSE 0)
      [] pattern = "half" -> 760 + (IF k = LongLen THEN 5 ELSE 0)

\* the stored rows of a long track; cal is the intake logged every day
LongTable(present, weight, cal) ==
    { [ id |-> Cardinality({x \in present : x <= k}), date |-> Today - LongLen + k,
        weight_kg |-> LongWeight(weight, k), bodyfat_pct |-> NULL,
        cal_in_kcal |-> cal, cal_out_sport_kcal |-> NULL,
        notes |-> NoNotes, source |-> "test" ]
      : k \in present }

\* every day logged, or the third day or the day five days back skipped
LongPresents == { LongDays, LongDays \ {3}, LongDays \ {LongLen - 4} }

LongWeights == {"light", "edge", "heavy", "falling", "slow", "half"}

\* days: two weeks, 16 and 17 days, one day short of the track, and a month
LongWindows == {14, 16, 17, LongLen - 1, 30}

InitLong ==
    /\ \E present \in LongPresents, weight \in LongWeights, cal \in {NULL, SeriesCalIn} :
          /\ table = LongTable(present, weight, cal)
          /\ seq = Cardinality(present)
    /\ result = [op |-> "init", args |-> <<>>, err |-> "None", val |-> <<>>]
    /\ allOk = TRUE

NextLong ==
    \/ \E days \in LongWindows : DetectAllFlagsCall(days)
    \/ \E days \in LongWindows : GetMetricsDataframeCall(NULL, NULL, days)

SpecLong == InitLong /\ [][NextLong]_vars

(***************************************************************************)
(* core/importer.py                                                        *)
(***************************************************************************)
\* a cell of the sheet that float() or pd.to_datetime() refuses (text)
BadCell == -999999

\* the entry fields of the column mapping
ImportFields == {"date", "weight_kg", "bodyfat_pct", "cal_in_kcal", "cal_out_sport_kcal"}

\* entry_data of one row once the loop over column_mapping is through: a
\* NaN / NaT cell leaves its field out (NULL here), a Timestamp (in half days)
\* is cut to its date, a body fat below 1.5 (cells are in hundredths) is
\* taken as a decimal fraction and multiplied by 100, exercise calories lose
\* their sign; raised tells that one of the conversions raised
EntryData(row) ==
    [ raised |-> \E f \in ImportFields : row[f] = BadCell,
      date |-> IF row.date = NULL THEN NULL ELSE row.date \div 2,
      weight_kg |-> row.weight_kg,
      bodyfat_pct |-> IF row.bodyfat_pct = NULL THEN NULL
                      ELSE IF row.bodyfat_pct < 150 THEN row.bodyfat_pct * 100
                      ELSE row.bodyfat_pct,
      cal_in_kcal |-> row.cal_in_kcal,
      cal_out_sport_kcal |-> IF row.cal_out_sport_kcal = NULL THEN NULL
                             ELSE Abs(row.cal_out_sport_kcal) ]

\* DailyEntryCreate(source='import', **entry_data): the body fat, in
\* hundredths of a percent, must lie in 0..100 and is rounded to a tenth
ImportEntryValid(data) ==
    /\ data.weight_kg >= 300 /\ data.weight_kg <= 2000
    /\ (data.bodyfat_pct = NULL \/ (data.bodyfat_pct >= 0 /\ data.bodyfat_pct <= 10000))
    /\ (data.cal_in_kcal = NULL \/ data.cal_in_kcal >= 0)
    /\ (data.cal_out_sport_kcal = NULL \/ data.cal_out_sport_kcal >= 0)

ImportEntry(data) ==
    [ weight_kg |-> data.weight_kg,
      bodyfat_pct |-> IF data.bodyfat_pct = NULL THEN NULL
                      ELSE RoundHalfEven(data.bodyfat_pct, 10),
      cal_in_kcal |-> data.cal_in_kcal,
      cal_out_sport_kcal |-> data.cal_out_sport_kcal,
      notes |-> NoNotes, source |-> "import" ]

\* the outcome of one row appended to the run st = [table, seq, outcomes]
Counted(st, outcome) == [st EXCEPT !.outcomes = Append(@, outcome)]

\* Storage.create called by the importer: the INSERT, then the read back
\* through get_by_id, whose ValidationError the importer counts as an error
\* after the row was committed
ImportCreate(st, d, e) ==
    IF \E r \in st.table : r.date = d THEN Counted(st, "errors")
    ELSE LET row == [ id |-> st.seq + 1, date |-> d, weight_kg |-> e.weight_kg,
                      bodyfat_pct |-> e.bodyfat_pct, cal_in_kcal |-> e.cal_in_kcal,
                      cal_out_sport_kcal |-> e.cal_out_sport_kcal,
                      notes |-> e.notes, source |-> e.source ]
         IN  [ table |-> st.table \cup {row}, seq |-> st.seq + 1,
               outcomes |-> Append(st.outcomes,
                                   IF RowReadable(row) THEN "imported" ELSE "errors") ]

\* the body of the loop of import_excel that never looks for an entry of the
\* same date
ImportRowNoDuplicateCheck(st, row, skip_duplicates) ==
    LET data == EntryData(row)
    IN  IF data.raised THEN Counted(st, "errors")
        ELSE IF data.date = NULL \/ data.weight_kg = NULL THEN Counted(st, "skipped")
        ELSE IF ~ImportEntryValid(data) THEN Counted(st, "errors")
        ELSE ImportCreate(st, data.date, ImportEntry(data))

\* the body of the loop of import_excel for one row
ImportRow(st, row, skip_duplicates) ==
    LET data == EntryData(row)
    IN  IF data.raised THEN Counted(st, "errors")
        ELSE IF data.date = NULL \/ data.weight_kg = NULL THEN Counted(st, "skipped")
        ELSE IF skip_duplicates /\ GetByDate(st.table, data.date).err # "None"
        THEN Counted(st, "errors")
        ELSE IF skip_duplicates /\ GetByDate(st.table, data.date).val # <<>>
        THEN Counted(st, "skipped")
        ELSE IF ~ImportEntryValid(data) THEN Counted(st, "errors")
        ELSE ImportCreate(st, data.date, ImportEntry(data))

\* Importer.import_excel on the rows of the file, from the store t with the
\* id counter s: the store and the counter after the run, and the outcome of
\* each row
ImportExcel(t, s, file, skip_duplicates) ==
    LET Run[k \in 0..Len(file)] ==
          IF k = 0 THEN [table |-> t, seq |-> s, outcomes |-> <<>>]
          ELSE ImportRow(Run[k - 1], file[k], skip_duplicates)
    IN  Run[Len(file)]

\* the stats dictionary of import_excel
ImportStats(file, outcomes) ==
    LET N(o) == Cardinality({ i \in 1..Len(outcomes) : outcomes[i] = o })
    IN  [ total |-> Len(file), imported |-> N("imported"),
          skipped |-> N("skipped"), errors |-> N("errors") ]

\* Importer.import_excel(file_path, column_mapping, skip_duplicates);
\* val.outcomes records the counter each row went to
ImportExcelCall(file, skip_duplicates) ==
    /\ \E run \in { ImportExcel(table, seq, file, skip_duplicates) } :
          /\ table' = run.table
          /\ seq' = run.seq
          /\ result' = [op |-> "import_excel", args |-> <<file, skip_duplicates>>,
                        err |-> "None",
                        val |-> [ stats |-> ImportStats(file, run.outcomes),
                                  outcomes |-> run.outcomes ]]
    /\ UNCHANGED allOk

(***************************************************************************)
(* Imports: a sheet of at most FileLen rows is imported into an empty      *)
(* store or into one that holds yesterday's entry, and imported again      *)
(***************************************************************************)
FileLen == 2

\* a row of the sheet; dates are Timestamps in half days, body fat is in
\* hundredths
FileRow(d, w, bf, cin, cout) ==
    [ date |-> d, weight_kg |-> w, bodyfat_pct |-> bf, cal_in_kcal |-> cin,
      cal_out_sport_kcal |-> cout ]

\* the rows a sheet is made of: a full row for yesterday with the exercise
\* negative; a row for yesterday noon with body fat 0.19; rows for today
\* without a weight, one of them with text in the body fat cell; a row for
\* today with body fat 0.7; a row without a date; a row for today with 20 kg
FileRows ==
    { FileRow(2 * (Today - 1), 855, 1850, 2200, -450),
      FileRow(2 * (Today - 1) + 1, 853, 19, NULL, NULL),
      FileRow(2 * Today, NULL, 1840, NULL, NULL),
      FileRow(2 * Today, NULL, BadCell, NULL, NULL),
      FileRow(2 * Today, 800, 70, NULL, NULL),
      FileRow(NULL, 851, NULL, NULL, NULL),
      FileRow(2 * Today, 200, NULL, NULL, NULL) }

Files == UNION { [1..n -> FileRows] : n \in 0..FileLen }

InitImport ==
    /\ \/ table = {} /\ seq = 0
       \/ /\ table = { [ id |-> 1, date |-> Today - 1, weight_kg |-> 860,
                         bodyfat_pct |-> NULL, cal_in_kcal |-> NULL,
                         cal_out_sport_kcal |-> NULL, notes |-> NoNotes,
                         source |-> "manual" ] }
          /\ seq = 1
    /\ result = [op |-> "init", args |-> <<>>, err |-> "None", val |-> <<>>]
    /\ allOk = TRUE

\* a sheet is imported, and then the same sheet again
NextImport ==
    \E file \in Files, skip_duplicates \in BOOLEAN :
       /\ (IF result.op = "init" THEN TRUE ELSE result.args[1] = file)
       /\ ImportExcelCall(file, skip_duplicates)

SpecImport == InitImport /\ [][NextImport]_vars

(***************************************************************************)
(* Properties                                                              *)
(***************************************************************************)
\* C1: for each window W in {7, 14, 30} and for both weight and net-calories,
\* the rolling average at row i of the table get_metrics_dataframe returns is
\* non-null if and only if at least ceil(0.7 * W) of the rows i-W+1..i have a
\* non-null source value.
C1_RollingAverageDensity ==
    (result.op = "get_metrics_dataframe" /\ result.err = "None") =>
        LET df == result.val
            Ceil70(w) == (7 * w + 9) \div 10
            Observed(f, i, w) ==
                Cardinality({ k \in Max(1, i - w + 1)..i : df[k][f] # NULL })
        IN  \A i \in 1..Len(df) :
              /\ ~IsNaN(df[i].bs_weight_7d_avg_kg)
                    <=> Observed("bs_weight_kg", i, 7) >= Ceil70(7)
              /\ ~IsNaN(df[i].bs_weight_14d_avg_kg)
                    <=> Observed("bs_weight_kg", i, 14) >= Ceil70(14)
              /\ ~IsNaN(df[i].bs_weight_30d_avg_kg)
                    <=> Observed("bs_weight_kg", i, 30) >= Ceil70(30)
              /\ ~IsNaN(df[i].cal_net_7d_avg_kcal)
                    <=> Observed("cal_net_kcal", i, 7) >= Ceil70(7)
              /\ ~IsNaN(df[i].cal_net_14d_avg_kcal)
                    <=> Observed("cal_net_kcal", i, 14) >= Ceil70(14)
              /\ ~IsNaN(df[i].cal_net_30d_avg_kcal)
                    <=> Observed("cal_net_kcal", i, 30) >= Ceil70(30)

\* C2: in every row of the derived table net calories are null when
\* calories_in is null, whatever the exercise calories hold, and otherwise
\* calories_in - BMR - exercise calories with a null exercise value counted
\* as 0; body fat, calories_in and exercise calories are passed through as
\* stored and fat and lean mass stay null when body fat is null.
C2_NetCalories ==
    (result.op = "get_metrics_dataframe" /\ result.err = "None") =>
        \A i \in 1..Len(result.val) :
            LET row == result.val[i]
                rec == CHOOSE r \in table : r.date = row.date
            IN  /\ rec.cal_in_kcal = NULL => row.cal_net_kcal = NULL
                /\ (rec.cal_in_kcal # NULL /\ rec.cal_out_sport_kcal = NULL)
                      => row.cal_net_kcal = rec.cal_in_kcal - 2000
                /\ (rec.cal_in_kcal # NULL /\ rec.cal_out_sport_kcal # NULL)
                      => row.cal_net_kcal
                           = rec.cal_in_kcal - 2000 - rec.cal_out_sport_kcal
                /\ row.bs_bodyfat_pct = rec.bodyfat_pct
                /\ row.cal_in_kcal = rec.cal_in_kcal
                /\ row.cal_out_sport_kcal = rec.cal_out_sport_kcal
                /\ rec.bodyfat_pct = NULL
                      => (row.bs_fat_mass_kg = NULL /\ row.bs_lean_mass_kg = NULL)

\* C2 witness: a table with one row whose exercise calories are missing and
\* whose net is calories_in - BMR, and one row whose calories_in is missing
\* while exercise calories are present and whose net is null
C2_Witness ==
    /\ result.op = "get_metrics_dataframe" /\ result.err = "None"
    /\ \E i, j \in 1..Len(result.val) :
          /\ result.val[i].cal_in_kcal # NULL
          /\ result.val[i].cal_out_sport_kcal = NULL
          /\ result.val[i].cal_net_kcal = result.val[i].cal_in_kcal - 2000
          /\ result.val[j].cal_in_kcal = NULL
          /\ result.val[j].cal_out_sport_kcal # NULL
          /\ result.val[j].cal_net_kcal = NULL

\* C3: for any store contents and any start_date/end_date,
\* get_metrics_dataframe returns exactly one row for each stored record whose
\* date lies in the range and no other row, in strictly ascending date order.
C3_ExactRowsAscending ==
    result.op = "get_metrics_dataframe" =>
        LET days == result.args[3]
            lo == IF days # NULL THEN Today - days ELSE result.args[1]
            hi == IF days # NULL THEN Today ELSE result.args[2]
            stored == { r.date : r \in { q \in table :
                                           /\ (lo = NULL \/ q.date >= lo)
                                           /\ (hi = NULL \/ q.date <= hi) } }
            df == result.val
        IN  /\ result.err = "None"
            /\ Len(df) = Cardinality(stored)
            /\ { df[i].date : i \in 1..Len(df) } = stored
            /\ \A i \in 1..(Len(df) - 1) : df[i].date < df[i + 1].date

\* C4: after any sequence of create, update and delete operations the store
\* holds at most one record per calendar date, and a create whose date is
\* already stored fails with the 'already exists' error and leaves the store
\* unchanged.
C4_OneRecordPerDate ==
    [][ /\ \A r, q \in table' : r.date = q.date => r = q
        /\ (result'.op = "create" /\ \E r \in table : r.date = result'.args[1])
              => (result'.err = "AlreadyExists" /\ table' = table) ]_vars

\* C4 witness: a create was refused on a date that is stored, with a second
\* record stored on another date
C4_Witness ==
    /\ result.op = "create" /\ result.err = "AlreadyExists"
    /\ \E r \in table : r.date = result.args[1]
    /\ Cardinality(table) = 2

\* C5: update on an id that is not stored raises 'not found' and delete on an
\* id that is not stored returns False, both leaving the store unchanged;
\* delete on a stored id returns True and removes exactly that record; update
\* on a stored id changes only the fields set in the update (to the values
\* given, when it succeeds) and leaves every other field and every other
\* record unchanged.
C5_UpdateDelete ==
    [][ LET id == result'.args[1]
            stored == { r \in table : r.id = id }
        IN  /\ (result'.op = "update" /\ stored = {})
                  => (result'.err = "NotFound" /\ table' = table)
            /\ (result'.op = "delete" /\ stored = {})
                  => (result'.val = FALSE /\ table' = table)
            /\ (result'.op = "delete" /\ stored # {})
                  => (result'.val = TRUE /\ table' = table \ stored
                        /\ Cardinality(stored) = 1)
            /\ (result'.op = "update" /\ stored # {})
                  => LET u == result'.args[2]
                     IN  /\ \A q \in table : q.id # id => q \in table'
                         /\ Cardinality(table') = Cardinality(table)
                         /\ \A old \in stored : \E new \in table' :
                              /\ new.id = id /\ new.date = old.date
                              /\ new.source = old.source
                              /\ \A f \in Fields \ u.fields : new[f] = old[f]
                              /\ result'.err = "None"
                                    => \A f \in u.fields : new[f] = u[f] ]_vars

\* C5 witness: an update that set some fields of one of two stored records
\* has succeeded
C5_Witness ==
    /\ result.op = "update" /\ result.err = "None"
    /\ result.args[2].fields # {}
    /\ Cardinality(table) = 2
    /\ \E r \in table : r.id = result.args[1] /\ r.weight_kg = result.args[2].weight_kg

\* C6: read-after-write.  After successful create/update/delete calls,
\* count() is the number of records stored now, get_by_date(d) returns a
\* record iff one is stored now for d, and it is the stored one; the record a
\* successful create or update wrote, and the absence a delete left, is what
\* get_by_date finds right after; and the tables and results the metrics,
\* KPI, red-flag and forecast engines return are those of the records stored
\* now in the window asked for.
C6_ReadAfterWrite ==
    /\ [](allOk =>
            LET InWindow(days) == { r \in table : Today - days <= r.date /\ r.date <= Today }
            IN  /\ result.op = "count" => result.val = Cardinality(table)
                /\ result.op = "get_by_date"
                      => /\ result.err = "None"
                         /\ result.val # <<>> <=> \E r \in table : r.date = result.args[1]
                         /\ result.val # <<>>
                               => (result.val[1] \in table
                                     /\ result.val[1].date = result.args[1])
                /\ (result.op = "get_metrics_dataframe" /\ result.args[3] # NULL)
                      => /\ result.err = "None"
                         /\ { [date |-> result.val[i].date,
                               weight_kg |-> result.val[i].bs_weight_kg,
                               bodyfat_pct |-> result.val[i].bs_bodyfat_pct,
                               cal_in_kcal |-> result.val[i].cal_in_kcal,
                               cal_out_sport_kcal |-> result.val[i].cal_out_sport_kcal]
                              : i \in 1..Len(result.val) }
                            = { [date |-> r.date, weight_kg |-> r.weight_kg,
                                 bodyfat_pct |-> r.bodyfat_pct,
                                 cal_in_kcal |-> r.cal_in_kcal,
                                 cal_out_sport_kcal |-> r.cal_out_sport_kcal]
                                : r \in InWindow(result.args[3]) }
                /\ result.op = "get_summary_stats"
                      => /\ result.err = "None"
                         /\ result.val = <<>> <=> InWindow(result.args[1]) = {}
                         /\ result.val # <<>>
                               => /\ result.val[1].data_coverage.num
                                       = 100 * Cardinality(InWindow(result.args[1]))
                                  /\ \E r \in InWindow(result.args[1]) :
                                       /\ \A q \in InWindow(result.args[1]) : q.date <= r.date
                                       /\ result.val[1].weight_current_kg = r.weight_kg
                                       /\ result.val[1].bf_current_pct = r.bodyfat_pct
                /\ result.op = "compute_all_kpis"
                      => /\ result.err = "None"
                         /\ result.val = <<>> <=> InWindow(result.args[1]) = {}
                /\ result.op = "detect_all_flags"
                      => /\ result.err = "None"
                         /\ result.val # <<>> => InWindow(result.args[1]) # {}
                         /\ (\E k \in 1..Len(result.val) : result.val[k].id = "RF_MissingData_Low")
                               <=> (InWindow(result.args[1]) # {}
                                      /\ 2 * Cardinality(InWindow(result.args[1]))
                                           < result.args[1])
                /\ result.op = "generate_forecast"
                      => (result.err = "InsufficientData"
                            <=> Cardinality(InWindow(result.args[2])) < 7))
    /\ [][ (allOk' /\ result'.op = "create")
              => LET e == result'.args[2]
                     got == GetByDate(table', result'.args[1])
                 IN  /\ got.err = "None" /\ got.val # <<>>
                     /\ \A f \in Fields : got.val[1][f] = e[f]
                     /\ got.val[1].source = e.source ]_vars
    /\ [][ (allOk' /\ result'.op = "update")
              => LET u == result'.args[2]
                 IN  \A old \in { r \in table : r.id = result'.args[1] } :
                        LET got == GetByDate(table', old.date)
                        IN  /\ got.err = "None" /\ got.val # <<>>
                            /\ \A f \in u.fields : got.val[1][f] = u[f] ]_vars
    /\ [][ (allOk' /\ result'.op = "delete")
              => \A old \in { r \in table : r.id = result'.args[1] } :
                    GetByDate(table', old.date).val = <<>> ]_vars

\* C6 witness: two records were created and the first deleted, and count()
\* then returned the one record left
C6_Witness ==
    /\ allOk /\ result.op = "count" /\ result.val = 1 /\ seq = 2
    /\ \E r \in table : r.id = 2

\* C7: with an empty store get_metrics_dataframe returns an empty table,
\* get_summary_stats returns {}, compute_all_kpis returns [] and
\* detect_all_flags returns [], and none of the four raises.
C7_EmptyStore ==
    (table = {} /\ result.op \in { "get_metrics_dataframe", "get_summary_stats",
                                   "compute_all_kpis", "detect_all_flags" })
        => (result.err = "None" /\ result.val = <<>>)

\* C7 witness: detect_all_flags has returned [] on a store that is empty
C7_Witness ==
    table = {} /\ result.op = "detect_all_flags" /\ result.val = <<>>

\* C8: generate_forecast raises the insufficient-data error if and only if
\* the lookback window holds fewer than 7 records, for every method; with 7
\* or more it returns points and a summary and raises nothing; and no other
\* engine raises the insufficient-data error.
C8_InsufficientData ==
    /\ result.op = "generate_forecast"
          => LET n == Cardinality({ r \in table : /\ Today - result.args[2] <= r.date
                                                   /\ r.date <= Today })
             IN  /\ result.err = "InsufficientData" <=> n < 7
                 /\ n >= 7 => /\ result.err = "None"
                              /\ result.val.points # <<>>
                              /\ result.val.summary # <<>>
    /\ result.op \in { "get_metrics_dataframe", "get_summary_stats",
                       "compute_all_kpis", "detect_all_flags" }
          => result.err # "InsufficientData"

\* C9: a successful generate_forecast call with horizon H returns exactly H
\* points, point i dated i days after the last record of the lookback
\* window, so that consecutive points are one day apart, and
\* summary.horizon_days is H.
C9_ForecastDates ==
    (result.op = "generate_forecast" /\ result.err = "None") =>
        LET H == result.args[1]
            window == { r.date : r \in { q \in table : /\ Today - result.args[2] <= q.date
                                                         /\ q.date <= Today } }
            last == CHOOSE d \in window : \A x \in window : x <= d
            points == result.val.points
        IN  /\ Len(points) = H
            /\ \A i \in 1..Len(points) : points[i].date = last + i
            /\ \A i \in 1..(Len(points) - 1) : points[i + 1].date = points[i].date + 1
            /\ Len(result.val.summary) = 1
            /\ result.val.summary[1].horizon_days = H

\* C9 witness: a forecast over more than one day from a window whose last
\* record is older than today
C9_Witness ==
    /\ result.op = "generate_forecast" /\ result.err = "None"
    /\ result.args[1] >= 2
    /\ Len(result.val.points) = result.args[1]
    /\ result.val.points[1].date < Today + 1

\* C10: with method 'auto', generate_forecast chooses the calorie-based
\* method if at least 50% of the rows of the lookback table have non-null
\* net calories, and the linear method otherwise.
C10_AutoByRows ==
    (result.op = "generate_forecast" /\ result.err = "None" /\ result.args[4] = "auto") =>
        LET rows == { r \in table : Today - result.args[2] <= r.date /\ r.date <= Today }
            withNet == { r \in rows : r.cal_in_kcal # NULL }
        IN  result.val.chosen = "calorie_based"
               <=> 2 * Cardinality(withNet) >= Cardinality(rows)

\* C10, amended: with method 'auto', generate_forecast chooses the
\* calorie-based method if the number of rows of the lookback table with
\* non-null net calories is at least 50% of lookback_days, and the linear
\* method otherwise; the calorie-based method, once chosen, computes the
\* linear forecast when fewer than 7 rows have net calories.
C10_AutoByLookbackDays ==
    (result.op = "generate_forecast" /\ result.err = "None" /\ result.args[4] = "auto") =>
        LET rows == { r \in table : Today - result.args[2] <= r.date /\ r.date <= Today }
            withNet == { r \in rows : r.cal_in_kcal # NULL }
        IN  /\ result.val.chosen \in {"calorie_based", "linear"}
            /\ result.val.chosen = "calorie_based"
                  <=> 2 * Cardinality(withNet) >= result.args[2]
            /\ result.val.summary[1].method = "calorie_based"
                  <=> (result.val.chosen = "calorie_based" /\ Cardinality(withNet) >= 7)

\* C10 witness: 'auto' chose the linear method although half of the rows of
\* the lookback table have net calories
C10_Witness ==
    /\ result.op = "generate_forecast" /\ result.err = "None"
    /\ result.args[4] = "auto" /\ result.val.chosen = "linear"
    /\ LET rows == { r \in table : Today - result.args[2] <= r.date /\ r.date <= Today }
       IN  2 * Cardinality({ r \in rows : r.cal_in_kcal # NULL }) >= Cardinality(rows)

\* C11: for every linear forecast with horizon H >= 2, the width of the
\* confidence interval (upper - lower) at day i+1 is strictly greater than at
\* day i, for every 1 <= i < H.
C11_WidthStrictlyIncreasing ==
    (result.op = "generate_forecast" /\ result.err = "None"
       /\ result.val.points[1].method = "linear")
    => \A i \in 1..(Len(result.val.points) - 1) :
          /\ ~result.val.points[i + 1].ci_width_zero
          /\ result.val.points[i + 1].ci_width_order
                > result.val.points[i].ci_width_order

\* a linear forecast over two days or more was returned
C11_Witness ==
    /\ result.op = "generate_forecast" /\ result.err = "None"
    /\ result.val.points[1].method = "linear"
    /\ Len(result.val.points) >= 2
    /\ ~result.val.points[1].ci_width_zero

C12_Witness ==
    /\ result.op = "generate_forecast" /\ result.err = "None"
    /\ result.val.summary[1].target_date # NULL
    /\ result.val.summary[1].target_date > Today + 1
    /\ result.val.summary[1].method = "calorie_based"

C14_StreakDays ==
    (result.op = "compute_all_kpis" /\ result.err = "None" /\ result.val # <<>>)
    => LET days   == result.args[1]
           dates  == { r.date : r \in { x \in table : x.date >= Today - days
                                                         /\ x.date <= Today } }
           latest == CHOOSE d \in dates : \A e \in dates : e <= d
           run    == { d \in dates : \A e \in d..latest : e \in dates }
       IN  \E k \in 1..Len(result.val) :
              /\ result.val[k].id = "KPI_Streak_Days"
              /\ result.val[k].value = Cardinality(run)
              /\ 1 <= result.val[k].value
              /\ result.val[k].value <= Cardinality(dates)
              /\ (result.val[k].is_good = "True") <=> (result.val[k].value >= 7)
              /\ result.val[k].is_good \in {"True", "False"}

\* a streak that a skipped day cut short of the row count
C14_Witness ==
    /\ result.op = "compute_all_kpis" /\ result.err = "None"
    /\ \E k \in 1..Len(result.val) :
          /\ result.val[k].id = "KPI_Streak_Days"
          /\ result.val[k].value = 4
          /\ Cardinality({ x \in table : x.date >= Today - result.args[1] }) > 4

C16_Calories7d ==
    (result.op = "compute_all_kpis" /\ result.err = "None" /\ result.val # <<>>)
    => LET df == GetMetricsDataframe(table, NULL, NULL, result.args[1]).val
           Has(f)   == { i \in 1..Len(df) : df[i][f] # NULL }
           Last7(f) == { i \in Has(f) : Cardinality({ j \in Has(f) : j > i }) < 7 }
           Total(f) == SumSeq([i \in 1..Len(df) |-> IF i \in Last7(f) THEN df[i][f] ELSE 0])
           Emitted(id) == { k \in 1..Len(result.val) : result.val[k].id = id }
           Right(id, f) ==
             /\ (Emitted(id) = {}) <=> (Has(f) = {})
             /\ \A k \in Emitted(id) :
                  2 * Abs(result.val[k].value * Cardinality(Last7(f)) - Total(f))
                     <= Cardinality(Last7(f))
       IN  /\ Right("KPI_NetCalories_7d", "cal_net_kcal")
           /\ Right("KPI_Intake_7d", "cal_in_kcal")
           /\ Right("KPI_Sport_7d", "cal_out_sport_kcal")
           /\ (/\ Has("cal_net_kcal") = 1..Len(df)
               /\ \A i \in 1..Len(df) : df[i].cal_net_kcal = -400)
              => \A k \in Emitted("KPI_NetCalories_7d") : result.val[k].value = -400

\* the intake KPI was computed over 7 rows that span more than 7 calendar
\* days
C16_Witness ==
    /\ result.op = "compute_all_kpis" /\ result.err = "None"
    /\ \E k \in 1..Len(result.val) : result.val[k].id = "KPI_Intake_7d"
    /\ Cardinality({ r \in table : r.cal_in_kcal # NULL
                                     /\ r.date >= Today - result.args[1] }) >= 7
    /\ \E r \in table : r.cal_in_kcal = NULL /\ r.date > Today - 7

\* C17 as stated: for weight trend, weight change, body-fat change, fat-mass
\* change and net calories is_good is True exactly when the KPI's reported
\* value is negative; for sport calories exactly when the value is >= 300;
\* for streak exactly when >= 7; for adherence exactly when >= 70; for intake
\* is_good is None.
C17_JudgedOnReportedValue ==
    (result.op = "compute_all_kpis" /\ result.err = "None")
    => \A k \in 1..Len(result.val) :
         LET kpi == result.val[k]
             Verdict(cond) == IF cond THEN "True" ELSE "False"
         IN  /\ kpi.id \in { "KPI_Weight_Trend_7d", "KPI_Weight_Change_30d",
                             "KPI_BF_Change_30d", "KPI_FatMass_Change_30d",
                             "KPI_NetCalories_7d" }
                  => kpi.is_good = Verdict(kpi.value < 0)
             /\ kpi.id = "KPI_Sport_7d" => kpi.is_good = Verdict(kpi.value >= 300)
             /\ kpi.id = "KPI_Streak_Days" => kpi.is_good = Verdict(kpi.value >= 7)
             /\ kpi.id = "KPI_Adherence_Score" => kpi.is_good = Verdict(kpi.value >= 70)
             /\ kpi.id = "KPI_Intake_7d" => kpi.is_good = "None"

\* C17, amended: the judgment follows the quantity before it is rounded for
\* the report. For weight trend, weight change, body-fat change, fat-mass
\* change and net calories is_good is True exactly when that quantity is
\* negative, so it is True whenever the reported value is negative and False
\* whenever the reported value is positive; for sport calories exactly when
\* the unrounded mean is >= 300, so True above a reported 300 and False below
\* it; for streak exactly when >= 7; for adherence exactly when the unrounded
\* score is >= 70; for intake is_good is None.
C17_JudgedBeforeRounding ==
    (result.op = "compute_all_kpis" /\ result.err = "None" /\ result.val # <<>>)
    => LET days == result.args[1]
           df   == GetMetricsDataframe(table, NULL, NULL, days).val
           Verdict(cond) == IF cond THEN "True" ELSE "False"
           Quantity(id) ==
             CASE id = "KPI_Weight_Trend_7d" -> TrendSlope7(df).num
               [] id = "KPI_Weight_Change_30d" -> WeightChange(df)
               [] id = "KPI_BF_Change_30d" -> ChangeOf(df, "bs_bodyfat_pct")
               [] id = "KPI_FatMass_Change_30d" -> ChangeOf(df, "bs_fat_mass_kg")
               [] id = "KPI_NetCalories_7d" -> MeanOfLast7(df, "cal_net_kcal").num
       IN  \A k \in 1..Len(result.val) :
             LET kpi == result.val[k]
             IN  /\ kpi.id \in { "KPI_Weight_Trend_7d", "KPI_Weight_Change_30d",
                                 "KPI_BF_Change_30d", "KPI_FatMass_Change_30d",
                                 "KPI_NetCalories_7d" }
                      => /\ kpi.is_good = Verdict(Quantity(kpi.id) < 0)
                         /\ kpi.value < 0 => kpi.is_good = "True"
                         /\ kpi.value > 0 => kpi.is_good = "False"
                 /\ kpi.id = "KPI_Sport_7d"
                      => /\ kpi.is_good =
                              Verdict(MeanOfLast7(df, "cal_out_sport_kcal").num
                                      >= 300 * MeanOfLast7(df, "cal_out_sport_kcal").den)
                         /\ kpi.value > 300 => kpi.is_good = "True"
                         /\ kpi.value < 300 => kpi.is_good = "False"
                 /\ kpi.id = "KPI_Streak_Days" => kpi.is_good = Verdict(kpi.value >= 7)
                 /\ kpi.id = "KPI_Adherence_Score"
                      => /\ kpi.is_good = Verdict(AdherenceScore(df, days).num
                                                  >= 70 * AdherenceScore(df, days).den)
                         /\ kpi.value > 70 => kpi.is_good = "True"
                         /\ kpi.value < 70 => kpi.is_good = "False"
                 /\ kpi.id = "KPI_Intake_7d" => kpi.is_good = "None"

\* sport calories reported as 300 and judged not good, the mean being just
\* under 300
C17_Witness ==
    /\ result.op = "compute_all_kpis" /\ result.err = "None"
    /\ \E k \in 1..Len(result.val) :
          /\ result.val[k].id = "KPI_Sport_7d"
          /\ result.val[k].value = 300 /\ result.val[k].is_good = "False"

\* C18: for every store with one record per date and every N >= 1 the window
\* of the last N days yields at most N rows, so data_coverage of
\* get_summary_stats(N) and KPI_Consistency_Coverage are both at most 100,
\* and the consistency coverage never exceeds data_coverage.
C18_AtMostNRows ==
    LET days == result.args[1]
        rows == Cardinality({ r \in table : r.date >= Today - days /\ r.date <= Today })
    IN  /\ (result.op = "get_summary_stats" /\ result.err = "None" /\ result.val # <<>>)
             => /\ rows <= days
                /\ result.val[1].data_coverage.num <= 100 * result.val[1].data_coverage.den
        /\ (result.op = "compute_all_kpis" /\ result.err = "None")
             => \A k \in 1..Len(result.val) :
                  result.val[k].id = "KPI_Consistency_Coverage_30d"
                    => /\ rows <= days
                       /\ result.val[k].value <= 1000
                       /\ result.val[k].value * days <= 1000 * rows + days

\* C19: detect_all_flags emits exactly one RF_ExtremeDeficit flag, of severity
\* critical and category health, if and only if at least one row of the
\* window has net calories < -1000; its dates_affected are exactly the dates
\* of those rows and its value is the mean net calories over those rows only;
\* no such flag is emitted when no row is below -1000.
C19_ExtremeDeficit ==
    (result.op = "detect_all_flags" /\ result.err = "None")
    => LET days  == result.args[1]
           rows  == { r \in table : r.date >= Today - days /\ r.date <= Today }
           Net(r) == r.cal_in_kcal - BMR
                       - (IF r.cal_out_sport_kcal = NULL THEN 0 ELSE r.cal_out_sport_kcal)
           low   == { r \in rows : r.cal_in_kcal # NULL /\ Net(r) < -1000 }
           order == SortValuesByDate(OrderByDateDesc(low))
           total == SumSeq([i \in 1..Len(order) |-> Net(order[i])])
           flags == { k \in 1..Len(result.val) : result.val[k].id = "RF_ExtremeDeficit" }
       IN  /\ Cardinality(flags) = (IF low = {} THEN 0 ELSE 1)
           /\ \A k \in flags :
                /\ result.val[k].severity = "critical"
                /\ result.val[k].category = "health"
                /\ result.val[k].dates = [i \in 1..Len(order) |-> order[i].date]
                /\ result.val[k].value.den > 0
                /\ result.val[k].value.num * Cardinality(low)
                     = total * result.val[k].value.den

\* the flag was raised over some of the rows that have a net balance, one of
\* the others being at -1000 exactly
C19_Witness ==
    /\ result.op = "detect_all_flags" /\ result.err = "None"
    /\ \E k \in 1..Len(result.val) :
          /\ result.val[k].id = "RF_ExtremeDeficit"
          /\ Len(result.val[k].dates) >= 2
    /\ \E r \in table : /\ r.date >= Today - result.args[1]
                        /\ r.cal_in_kcal = 1000 /\ r.cal_out_sport_kcal = NULL

C20_WitnessGap ==
    /\ result.op = "detect_all_flags" /\ result.err = "None"
    /\ result.args[1] = 7
    /\ Cardinality({ r \in table : r.date >= Today - 7 }) = 7
    /\ \E k \in 1..Len(result.val) :
          /\ result.val[k].id = "RF_IdenticalWeights"
          /\ result.val[k].value = [num |-> 7, den |-> 1]

\* C21: detect_all_flags emits one high-severity health flag
\* RF_ExtremeWeightChange for a date exactly when the weight on that date
\* differs by more than 2.0 kg from the weight of the previous day (a
\* single-day swing), one flag per such date, with value = |change| and
\* dates_affected = [that date].
C21_SingleDaySwing ==
    (result.op = "detect_all_flags" /\ result.err = "None")
    => LET days  == result.args[1]
           rows  == { r \in table : r.date >= Today - days /\ r.date <= Today }
           \* the change of r against the record of the day before, if any
           Swing(r, p) == /\ p.date = r.date - 1
                          /\ Abs(r.weight_kg - p.weight_kg) > 20
           swings == { r \in rows : \E p \in rows : Swing(r, p) }
           flags == { k \in 1..Len(result.val) :
                        result.val[k].id = "RF_ExtremeWeightChange" }
       IN  /\ Cardinality(flags) = Cardinality(swings)
           /\ \A k \in flags :
                /\ result.val[k].severity = "high"
                /\ result.val[k].category = "health"
                /\ \E r \in swings : \E p \in rows :
                      /\ Swing(r, p)
                      /\ result.val[k].dates = << r.date >>
                      /\ result.val[k].value
                           = [num |-> Abs(r.weight_kg - p.weight_kg), den |-> 1]
           /\ \A r \in swings : \E k \in flags : result.val[k].dates = << r.date >>

C23_BothAboveThreshold ==
    (result.op = "detect_all_flags" /\ result.err = "None" /\ result.val # <<>>)
    => LET days  == result.args[1]
           rows  == { r \in table : r.date >= Today - days /\ r.date <= Today }
           last  == CHOOSE r \in rows : \A q \in rows : q.date <= r.date
       IN  \A k \in 1..Len(result.val) :
              result.val[k].id \in {"RF_Plateau", "RF_StalledProgress"}
                => last.weight_kg > 750

\* C23, amended: the stalled-progress rule alone has the threshold.
\* RF_StalledProgress is emitted exactly when the window has at least 21
\* rows, the raw weight of the last row differs from that of the first by
\* less than 0.5 kg and the last weight is above 75 kg, with value |change|.
\* RF_Plateau is emitted exactly when the window has at least 14 rows, at
\* least 10 of them have a 14-day average, and the averages of the first and
\* the last of the (at most 14) latest such rows differ by less than 0.3 kg,
\* whatever the end weight is.
C23_ThresholdOnStalledOnly ==
    (result.op = "detect_all_flags" /\ result.err = "None")
    => LET days  == result.args[1]
           rows  == { r \in table : r.date >= Today - days /\ r.date <= Today }
           w     == SortValuesByDate(OrderByDateDesc(rows))
           n     == Len(w)
           \* the 14-day average of row i, over 9 rows at least: [sum, count]
           Lo(i)  == IF i > 14 THEN i - 13 ELSE 1
           Sum(i) == SumSeq([j \in 1..(i - Lo(i) + 1) |-> w[Lo(i) + j - 1].weight_kg])
           Cnt(i) == i - Lo(i) + 1
           first == IF n - 13 > 9 THEN n - 13 ELSE 9
           plateau == /\ n >= 14 /\ n - first + 1 >= 10
                      /\ Abs(Sum(n) * Cnt(first) - Sum(first) * Cnt(n))
                            < 3 * Cnt(n) * Cnt(first)
           stalled == /\ n >= 21
                      /\ Abs(w[n].weight_kg - w[1].weight_kg) < 5
                      /\ w[n].weight_kg > 750
           ids == [k \in 1..Len(result.val) |-> result.val[k].id]
           Count_(id) == Cardinality({ k \in 1..Len(ids) : ids[k] = id })
       IN  /\ Count_("RF_Plateau") = (IF plateau THEN 1 ELSE 0)
           /\ Count_("RF_StalledProgress") = (IF stalled THEN 1 ELSE 0)
           /\ \A k \in 1..Len(ids) :
                ids[k] = "RF_StalledProgress"
                  => result.val[k].value
                       = [num |-> Abs(w[n].weight_kg - w[1].weight_kg), den |-> 1]

\* at 75.1 kg over 21 rows both flags were emitted
C23_Witness ==
    /\ result.op = "detect_all_flags" /\ result.err = "None"
    /\ \A r \in table : r.weight_kg = 751
    /\ \E k \in 1..Len(result.val) : result.val[k].id = "RF_StalledProgress"
    /\ \E k \in 1..Len(result.val) : result.val[k].id = "RF_Plateau"

\* at 70.0 kg the plateau flag was emitted, the stalled-progress flag was not
C23_WitnessLight ==
    /\ result.op = "detect_all_flags" /\ result.err = "None"
    /\ \A r \in table : r.weight_kg = 700
    /\ Cardinality({ r \in table : r.date >= Today - result.args[1] }) >= 21
    /\ \E k \in 1..Len(result.val) : result.val[k].id = "RF_Plateau"
    /\ \A k \in 1..Len(result.val) : result.val[k].id # "RF_StalledProgress"

\* C24 as stated: detect_all_flags emits RF_InconsistentBF (low) whenever
\* fewer than 30% of the rows of the window have a body-fat value, and
\* RF_InconsistentCalories (medium) whenever fewer than 50% of the rows have
\* a calories-in value, and emits neither at or above those thresholds.
C24_BelowThreshold ==
    (result.op = "detect_all_flags" /\ result.err = "None")
    => LET days  == result.args[1]
           rows  == { r \in table : r.date >= Today - days /\ r.date <= Today }
           total == Cardinality(rows)
           bf    == Cardinality({ r \in rows : r.bodyfat_pct # NULL })
           cal   == Cardinality({ r \in rows : r.cal_in_kcal # NULL })
           Emitted(id, severity) ==
               Cardinality({ k \in 1..Len(result.val) :
                               /\ result.val[k].id = id
                               /\ result.val[k].severity = severity })
       IN  /\ Emitted("RF_InconsistentBF", "low")
                = (IF bf * 100 < 30 * total THEN 1 ELSE 0)
           /\ Emitted("RF_InconsistentCalories", "medium")
                = (IF cal * 100 < 50 * total THEN 1 ELSE 0)

\* C24, amended: detect_all_flags emits RF_InconsistentBF (low, data
\* quality) exactly when some but fewer than 30% of the rows of the window
\* have a body-fat value, and RF_InconsistentCalories (medium, data quality)
\* exactly when some but fewer than 50% of the rows have a calories-in
\* value; the value of each flag is that percentage. A column with no value
\* at all raises no flag, nor does a coverage at or above the threshold.
C24_TrackedBelowThreshold ==
    (result.op = "detect_all_flags" /\ result.err = "None")
    => LET days  == result.args[1]
           rows  == { r \in table : r.date >= Today - days /\ r.date <= Today }
           total == Cardinality(rows)
           bf    == Cardinality({ r \in rows : r.bodyfat_pct # NULL })
           cal   == Cardinality({ r \in rows : r.cal_in_kcal # NULL })
           Emitted(id, severity, count) ==
               Cardinality({ k \in 1..Len(result.val) :
                               /\ result.val[k].id = id
                               /\ result.val[k].severity = severity
                               /\ result.val[k].category = "data_quality"
                               /\ result.val[k].dates = <<>>
                               /\ result.val[k].value.num * total
                                    = 100 * count * result.val[k].value.den })
           NumberOf(id) == Cardinality({ k \in 1..Len(result.val) : result.val[k].id = id })
       IN  /\ Emitted("RF_InconsistentBF", "low", bf)
                = (IF 0 < bf /\ bf * 100 < 30 * total THEN 1 ELSE 0)
           /\ Emitted("RF_InconsistentCalories", "medium", cal)
                = (IF 0 < cal /\ cal * 100 < 50 * total THEN 1 ELSE 0)
           /\ NumberOf("RF_InconsistentBF") = Emitted("RF_InconsistentBF", "low", bf)
           /\ NumberOf("RF_InconsistentCalories")
                = Emitted("RF_InconsistentCalories", "medium", cal)

\* both flags were emitted over the same window
C24_Witness ==
    /\ result.op = "detect_all_flags" /\ result.err = "None"
    /\ \E k \in 1..Len(result.val) : result.val[k].id = "RF_InconsistentBF"
    /\ \E k \in 1..Len(result.val) : result.val[k].id = "RF_InconsistentCalories"

\* body fat on exactly 30 % of the rows and calories on exactly 50 %, and
\* neither flag
C24_WitnessAtThreshold ==
    /\ result.op = "detect_all_flags" /\ result.err = "None"
    /\ LET rows == { r \in table : r.date >= Today - result.args[1] }
       IN  /\ 10 * Cardinality({ r \in rows : r.bodyfat_pct # NULL })
                = 3 * Cardinality(rows)
           /\ 2 * Cardinality({ r \in rows : r.cal_in_kcal # NULL })
                = Cardinality(rows)
    /\ \A k \in 1..Len(result.val) :
          result.val[k].id \notin {"RF_InconsistentBF", "RF_InconsistentCalories"}

\* C25: rolling averages are computed only from rows inside the queried date
\* range: get_metrics_dataframe(days=14) has a null 30-day rolling average,
\* for both weight and net calories, in every row, whatever the store holds
\* before the range; and the 7-day averages of its first three rows are null
\* as well, since the rows before the range do not count.
C25_No30dAverageIn14Days ==
    (result.op = "get_metrics_dataframe" /\ result.err = "None" /\ result.args[3] = 14)
    => /\ \A i \in 1..Len(result.val) :
            /\ IsNaN(result.val[i].bs_weight_30d_avg_kg)
            /\ IsNaN(result.val[i].cal_net_30d_avg_kcal)
       /\ \A i \in 1..Len(result.val) :
            i <= 3 => /\ IsNaN(result.val[i].bs_weight_7d_avg_kg)
                      /\ IsNaN(result.val[i].cal_net_7d_avg_kcal)

\* the 15 rows of a 14-day range came back from a store that holds more rows,
\* with calories logged
C25_Witness ==
    /\ result.op = "get_metrics_dataframe" /\ result.err = "None"
    /\ result.args[3] = 14
    /\ Len(result.val) = 15
    /\ Cardinality(table) > 15
    /\ \A i \in 1..Len(result.val) : result.val[i].cal_net_kcal # NULL

\* over a month's range the 30-day average of the last row is not null
C25_WitnessPopulated ==
    /\ result.op = "get_metrics_dataframe" /\ result.err = "None"
    /\ result.args[3] = 30
    /\ ~IsNaN(result.val[Len(result.val)].bs_weight_30d_avg_kg)

\* C26: when the calorie-based method is requested or auto-selected but
\* fewer than 7 rows of the lookback have non-null net calories, the result
\* is exactly the linear method's result; with 7 such rows or more it is the
\* calorie-based one; in every result of generate_forecast the method tag of
\* every forecast point equals summary.method, which is 'linear' in the
\* fallback case and never 'auto'.
C26_FallbackToLinear ==
    (result.op = "generate_forecast" /\ result.err = "None")
    => LET horizon  == result.args[1]
           lookback == result.args[2]
           target   == result.args[3]
           method   == result.args[4]
           rows     == { r \in table : r.date >= Today - lookback /\ r.date <= Today }
           cal      == Cardinality({ r \in rows : r.cal_in_kcal # NULL })
           selected == IF method = "auto"
                       THEN (IF 2 * cal >= lookback THEN "calorie_based" ELSE "linear")
                       ELSE method
           summary  == result.val.summary[1]
           linear   == GenerateForecast(table, horizon, lookback, target, "linear")
       IN  /\ Len(result.val.summary) = 1
           /\ Len(result.val.points) = horizon
           /\ \A i \in 1..Len(result.val.points) :
                result.val.points[i].method = summary.method
           /\ summary.method \in {"linear", "calorie_based"}
           /\ (selected = "calorie_based" /\ cal < 7)
                => /\ summary.method = "linear"
                   /\ linear.err = "None"
                   /\ result.val.points = linear.val.points
                   /\ result.val.summary = linear.val.summary
           /\ (selected = "calorie_based" /\ cal >= 7)
                => summary.method = "calorie_based"
           /\ selected = "linear" => summary.method = "linear"

\* the calorie-based method was requested over a lookback with 1 to 6 rows
\* of net calories, and a linear forecast came back
C26_Witness ==
    /\ result.op = "generate_forecast" /\ result.err = "None"
    /\ result.args[4] = "calorie_based"
    /\ Cardinality({ r \in table : r.date >= Today - result.args[2]
                                    /\ r.cal_in_kcal # NULL }) \in 1..6
    /\ result.val.summary[1].method = "linear"
    /\ \A i \in 1..Len(result.val.points) : result.val.points[i].method = "linear"

\* the calorie-based method was auto-selected over a lookback with fewer than
\* 7 rows of net calories, and a linear forecast came back
C26_WitnessAuto ==
    /\ result.op = "generate_forecast" /\ result.err = "None"
    /\ result.args[4] = "auto"
    /\ LET cal == Cardinality({ r \in table : r.date >= Today - result.args[2]
                                              /\ r.cal_in_kcal # NULL })
       IN  2 * cal >= result.args[2] /\ cal < 7
    /\ result.val.summary[1].method = "linear"

\* C27: every forecast point returned by generate_forecast, for either
\* method and every horizon day, satisfies confidence_lower <
\* predicted_weight < confidence_upper, with the prediction at the midpoint
\* of the interval. The bounds are predicted_weight -/+ half the width, so
\* the prediction is the midpoint, and the bounds are strict exactly when
\* the width is not zero.
C27_PredictionInsideInterval ==
    (result.op = "generate_forecast" /\ result.err = "None")
    => \A i \in 1..Len(result.val.points) : ~result.val.points[i].ci_width_zero

\* C28 as stated: for every import_excel run, imported + skipped + errors
\* equals the total rows of the file; rows lacking a date or a weight are
\* counted as skipped and create no record; with skip_duplicates=True a
\* second import of the same file imports 0 rows, counts every previously
\* imported row as skipped and leaves the store unchanged, and the store
\* never holds two records for the same date, also when the file itself
\* repeats a date.
C28_ImportAccounting ==
    (result.op = "import_excel")
    => LET file   == result.args[1]
           stats  == result.val.stats
           out    == result.val.outcomes
           second == ImportExcel(table, seq, file, TRUE)
       IN  /\ stats.total = Len(file)
           /\ stats.imported + stats.skipped + stats.errors = stats.total
           /\ \A i \in 1..Len(file) :
                (file[i].date = NULL \/ file[i].weight_kg = NULL)
                  => out[i] = "skipped"
           /\ \A i \in 1..Len(file) : second.outcomes[i] # "imported"
           /\ \A i \in 1..Len(file) :
                out[i] = "imported" => second.outcomes[i] = "skipped"
           /\ second.table = table
           /\ \A r, q \in table : r.date = q.date => r = q

\* C28, amended: for every import_excel run, imported + skipped + errors
\* equals the total rows of the file; a row lacking a date or a weight is
\* counted as skipped when every cell it has converts, and as an error when
\* one of its cells does not convert, and creates no record either way; with
\* skip_duplicates=True a second import of the same file imports 0 rows,
\* counts every row the first import counted as imported as skipped and
\* leaves the store unchanged, and the store never holds two records for the
\* same date, also when the file itself repeats a date.
C28_ImportAccountingConverted ==
    (result.op = "import_excel")
    => LET file   == result.args[1]
           stats  == result.val.stats
           out    == result.val.outcomes
           second == ImportExcel(table, seq, file, TRUE)
           Bad(row) == \E f \in ImportFields : row[f] = BadCell
           Lacking(row) == row.date = NULL \/ row.weight_kg = NULL
       IN  /\ stats.total = Len(file)
           /\ stats.imported + stats.skipped + stats.errors = stats.total
           /\ Len(out) = Len(file)
           /\ \A i \in 1..Len(file) :
                Lacking(file[i])
                  => out[i] = (IF Bad(file[i]) THEN "errors" ELSE "skipped")
           \* every imported record stems from a row that has a date and a
           \* weight and no cell that fails to convert
           /\ \A r \in table :
                r.source = "import"
                  => \E i \in 1..Len(file) :
                        /\ ~Lacking(file[i]) /\ ~Bad(file[i])
                        /\ file[i].date \div 2 = r.date
                        /\ file[i].weight_kg = r.weight_kg
           /\ \A i \in 1..Len(file) : second.outcomes[i] # "imported"
           /\ \A i \in 1..Len(file) :
                out[i] = "imported" => second.outcomes[i] = "skipped"
           /\ second.table = table
           /\ \A r, q \in table : r.date = q.date => r = q

\* a file that repeats a date was imported a second time with
\* skip_duplicates=True: nothing was imported, both rows were skipped, and
\* the store holds the one record of the first import
C28_Witness ==
    /\ result.op = "import_excel" /\ result.args[2] = TRUE
    /\ Len(result.args[1]) = 2
    /\ result.args[1][1].date # NULL /\ result.args[1][2].date # NULL
    /\ result.args[1][1].date \div 2 = result.args[1][2].date \div 2
    /\ result.args[1][1] # result.args[1][2]
    /\ result.val.stats.imported = 0 /\ result.val.stats.skipped = 2
    /\ \E r \in table : r.source = "import" /\ r.weight_kg = result.args[1][1].weight_kg
    /\ Cardinality(table) = 1

\* a row without a weight and with text in another cell was counted as an
\* error
C28_WitnessBadCell ==
    /\ result.op = "import_excel"
    /\ \E i \in 1..Len(result.args[1]) :
          /\ result.args[1][i].weight_kg = NULL
          /\ result.args[1][i].bodyfat_pct = BadCell
          /\ result.val.outcomes[i] = "errors"

\* C29: a call of any engine operation (get_metrics_dataframe,
\* get_summary_stats, compute_all_kpis, detect_all_flags, generate_forecast,
\* calculate_target_calories) leaves the store unchanged: the same set of
\* records with the same field values, the same count and the same id
\* counter, whether the call returns a result or raises.
C29_EnginesLeaveStore ==
    [][ result'.op \in { "get_metrics_dataframe", "get_summary_stats",
                         "compute_all_kpis", "detect_all_flags",
                         "generate_forecast", "calculate_target_calories" }
          => /\ table' = table
             /\ Count(table') = Count(table)
             /\ seq' = seq ]_vars

\* a forecast was returned over a store that holds every day of the series
C29_Witness ==
    /\ result.op = "generate_forecast" /\ result.err = "None"
    /\ Count(table) = SeriesLen
    /\ \A r \in table : r.source = "test"

\* a call raised over a store that holds its rows still
C29_WitnessRaised ==
    /\ result.op \in {"generate_forecast", "calculate_target_calories"}
    /\ result.err # "None"
    /\ Count(table) >= SeriesLen - 1

\* C30: whenever KPI_Goal_ETA reports a non-null value, that value is a
\* non-negative number of days, for every table with at least 14 rows and
\* every configured target weight (including a current weight already at or
\* below the target).
C30_EtaNotNegative ==
    (result.op = "compute_all_kpis" /\ result.err = "None")
    => \A k \in 1..Len(result.val) :
          (result.val[k].id = "KPI_Goal_ETA" /\ result.val[k].value # NULL)
            => result.val[k].value >= 0

====
